---- MODULE Spec2Model ----
(***************************************************************************)
(* Background control plane and MVCC GC of the range cache memory engine   *)
(* (components/range_cache_memory_engine/src/background.rs).               *)
(*                                                                         *)
(* The region manager, the memory controller and the skiplist are not part *)
(* of the sources at hand; they are modelled at their interfaces.          *)
(***************************************************************************)
EXTENDS Integers, Sequences, FiniteSets, TLC

\* ------------------------------------------------------------------------
\* Bounds of the model
\* ------------------------------------------------------------------------
\* Number of Gc tasks the tick driver / callers may schedule in one run.
MaxGcTasks == 3
\* Gc tasks that may wait in the scheduler queue at once.
MaxQueue == 1
\* Largest MVCC timestamp a Gc task or a read snapshot carries.
MaxTs == 2
\* Requests the environment may issue in one run: snapshots, evictions and
\* splits on the one hand, load_region calls and applies on the other.
MaxEnvOps == 2
MaxLoadOps == 3

\* u64::MAX, used for "no snapshot" / "no historical record".
U64Max == 1000000

\* ------------------------------------------------------------------------
\* Key ranges (CacheRange): half-open [s, e) over small integer keys
\* ------------------------------------------------------------------------
Rng(s, e) == [s |-> s, e |-> e]

Overlaps(a, b) == a.s < b.e /\ b.s < a.e

contains_range(a, b) == a.s <= b.s /\ b.e <= a.e

InRange(k, r) == r.s <= k /\ k < r.e

Min2(a, b) == IF a <= b THEN a ELSE b

SetMin(S) == CHOOSE x \in S : \A y \in S : x <= y

SeqToSet(q) == {q[i] : i \in 1..Len(q)}

\* A set of regions as a sequence, ordered by region id.
RECURSIVE RegionsById(_)
RegionsById(S) ==
    IF S = {} THEN <<>>
    ELSE LET m == CHOOSE x \in S : \A y \in S : x.id <= y.id
         IN <<m>> \o RegionsById(S \ {m})

\* ------------------------------------------------------------------------
\* Regions (kvproto Region: id, epoch version, key range)
\* ------------------------------------------------------------------------
Region(id, ver, s, e) == [id |-> id, ver |-> ver, rng |-> Rng(s, e)]

RegionIds == {1, 2, 3}

\* RangeMeta of the region manager; state "Absent" stands for "no entry".
\* reason is the evict reason recorded on the transition to Evicting; asked
\* remembers the reason handed to the evict_region call that cancelled a load.
AbsentMeta ==
    [state |-> "Absent", ver |-> 0, rng |-> Rng(0, 0), safe_point |-> 0,
     in_gc |-> FALSE, snaps |-> {}, reason |-> "None", asked |-> "None"]

NewMeta(r, st) ==
    [state |-> st, ver |-> r.ver, rng |-> r.rng, safe_point |-> 0,
     in_gc |-> FALSE, snaps |-> {}, reason |-> "None", asked |-> "None"]

MetaRegion(id, m) == [id |-> id, ver |-> m.ver, rng |-> m.rng]

VARIABLES
    \* region manager
    regions,        \* region id -> RangeMeta
    is_gc_task_running, \* the regions-in-gc guard
    history,        \* historical range records: set of [rng, ts, sid]
    ranges_being_written, \* ranges registered by the write path
    \* read snapshots held by readers
    snapshots,      \* live read snapshots: set of [sid, rid, ts, rng]
    nextSid,        \* snapshots acquired so far
    \* skiplist engine and memory controller
    write_cf,       \* column "write": set of write entries
    default_cf,     \* column "default": set of default entries
    lock_cf,        \* column "lock": set of lock entries
    used,           \* MemoryController: bytes allocated
    hard_limit,     \* MemoryController: hard_limit_threshold of the config
    \* schedulers
    taskQ,          \* scheduler queue of the background runner
    delQ,           \* scheduler queue of the delete-range runner
    \* BackgroundRunner
    workerPc,       \* position of the runner thread inside run()
    gcPool,         \* futures spawned on the single-threaded gc pool
    rocks_engine,   \* BackgroundRunner.rocks_engine: whether it is Some(..), and
                    \* the oldest sequence number the disk engine reports
    loadPool,       \* futures spawned on the single-threaded load pool
    \* DeleteRangeRunner
    delay_regions,  \* DeleteRangeRunner.delay_regions
    delPc,          \* regions the runner decided to delete, not yet erased
    \* environment
    gcScheduled,    \* Gc tasks scheduled so far
    envOps,         \* snapshots, evictions and splits requested so far
    loadOps,        \* load_region calls and applies requested so far
    panicked,       \* an assert!/unwrap()/unreachable!() of the program failed
    \* BackgroundRunner, tasks other than Gc and LoadRegion
    memory_checking, \* MemoryController: a memory check is under way
    last_seqno,     \* BackgroundRunner.last_seqno
    evictPool,      \* futures spawned on load_evict_remote
    lockPool,       \* futures spawned on lock_cleanup_remote
    \* BgWorkManager and its tick thread
    clock,          \* physical time of the process
    pd_ok,          \* the placement service answers get_tso in time
    tick,           \* the tick thread: position and the two tickers
    drop_pc,        \* position of the thread that drops the work manager
    worker_stopped, \* worker.stop() has been called
    \* RocksWriteBatch (engine_rocks)
    wb,             \* a write batch
    other,          \* a second write batch, the argument of merge
    \* PdRangeHintService
    hint            \* the watch task of the hint service

rmVars == <<regions, is_gc_task_running, history, ranges_being_written>>
snapVars == <<snapshots, nextSid>>
slVars == <<write_cf, default_cf, lock_cf, used>>
qVars == <<taskQ, delQ>>
gcVars == <<workerPc, gcPool, rocks_engine>>
loadVars == <<loadPool>>
delVars == <<delay_regions, delPc>>
envVars == <<gcScheduled, envOps, loadOps>>
cfgVars == <<hard_limit>>
runVars == <<memory_checking, last_seqno, evictPool, lockPool>>
tickVars == <<clock, pd_ok, tick, drop_pc, worker_stopped>>
wbVars == <<wb, other>>
hintVars == <<hint>>
extVars == <<runVars, tickVars, wbVars, hintVars>>

vars == <<rmVars, snapVars, slVars, qVars, gcVars, loadVars, delVars, envVars,
          cfgVars, extVars, panicked>>

\* ------------------------------------------------------------------------
\* Skiplist entries
\* ------------------------------------------------------------------------
\* An entry of the write column: internal key (k, cts, seq, vt), where k is
\* the MVCC key prefix, cts the commit timestamp, seq the sequence number and
\* vt the value type; its value is a write record (wt, sts, short).
WEntry(k, cts, seq, vt, wt, sts, short) ==
    [k |-> k, cts |-> cts, seq |-> seq, vt |-> vt, wt |-> wt, sts |-> sts,
     short |-> short]

\* An entry of the default column: user key (k, sts) and sequence number.
DEntry(k, sts, seq) == [k |-> k, sts |-> sts, seq |-> seq]

\* Skiplist order of the write column: user key ascending (the timestamp is
\* encoded descending inside the user key), then sequence descending.
Before(a, b) ==
    \/ a.k < b.k
    \/ a.k = b.k /\ a.cts > b.cts
    \/ a.k = b.k /\ a.cts = b.cts /\ a.seq > b.seq

RECURSIVE SortedEntries(_)
SortedEntries(S) ==
    IF S = {} THEN <<>>
    ELSE LET m == CHOOSE x \in S : \A y \in S \ {x} : Before(x, y)
         IN <<m>> \o SortedEntries(S \ {m})

\* ------------------------------------------------------------------------
\* Filter (MVCC GC of the write and default columns)
\* ------------------------------------------------------------------------
\* Option values are sets with at most one element.
FilterNew(safe_point, oldest_seqno) ==
    [safe_point |-> safe_point, oldest_seqno |-> oldest_seqno,
     mvcc_key_prefix |-> -1, remove_older |-> FALSE,
     cached_mvcc_delete_key |-> {}, cached_skiplist_delete_key |-> {},
     last_user_key |-> <<>>, filtered |-> 0]

NoFilter == FilterNew(0, 0)

Count(S) == IF S = {} THEN 0 ELSE 1

\* Result of one filter step: filter state, write column, default column.
FRes(f, w, d) == [f |-> f, w |-> w, d |-> d]

\* handle_filtered_write that leaves the default column as it is.
handle_filtered_write_keeps_payload(f, e, d) == d

\* Removes the default-column payload of a filtered Put without short value.
handle_filtered_write(f, e, d) ==
    IF ~e.short /\ e.wt = "Put"
    THEN {x \in d : ~(x.k = f.mvcc_key_prefix /\ x.sts = e.sts)}
    ELSE d

\* filter_key_mvcc in which a removed Rollback or Lock record counts as the
\* version that decides for the prefix.
filter_key_mvcc_rollback_decides(f0, e, w0, d) ==
    IF <<e.k, e.cts>> = f0.last_user_key
    THEN FRes([f0 EXCEPT !.filtered = @ + 1], w0 \ {e}, d)
    ELSE
      LET f1 == [f0 EXCEPT !.last_user_key = <<e.k, e.cts>>]
          newPrefix == f1.mvcc_key_prefix # e.k
          f2 == IF newPrefix
                THEN [f1 EXCEPT !.mvcc_key_prefix = e.k,
                                !.remove_older = FALSE,
                                !.cached_mvcc_delete_key = {},
                                !.filtered = @ + Count(f1.cached_mvcc_delete_key)]
                ELSE f1
          w2 == IF newPrefix THEN w0 \ f1.cached_mvcc_delete_key ELSE w0
          filtered == f2.remove_older
                      \/ (~f2.remove_older /\ e.wt \in {"Rollback", "Lock"})
          f3 == IF f2.remove_older THEN f2
                ELSE IF e.wt = "Delete"
                     THEN [f2 EXCEPT !.remove_older = TRUE,
                                     !.cached_mvcc_delete_key = {e}]
                ELSE [f2 EXCEPT !.remove_older = TRUE]
      IN IF ~filtered
         THEN FRes(f3, w2, d)
         ELSE FRes([f3 EXCEPT !.filtered = @ + 1], w2 \ {e},
                   handle_filtered_write(f3, e, d))

\* filter_key_mvcc that removes an MVCC Delete as soon as it meets it.
filter_key_mvcc_delete_at_once(f0, e, w0, d) ==
    IF <<e.k, e.cts>> = f0.last_user_key
    THEN FRes([f0 EXCEPT !.filtered = @ + 1], w0 \ {e}, d)
    ELSE
      LET f1 == [f0 EXCEPT !.last_user_key = <<e.k, e.cts>>]
          newPrefix == f1.mvcc_key_prefix # e.k
          f2 == IF newPrefix
                THEN [f1 EXCEPT !.mvcc_key_prefix = e.k,
                                !.remove_older = FALSE,
                                !.cached_mvcc_delete_key = {},
                                !.filtered = @ + Count(f1.cached_mvcc_delete_key)]
                ELSE f1
          w2 == IF newPrefix THEN w0 \ f1.cached_mvcc_delete_key ELSE w0
          filtered == f2.remove_older
                      \/ (~f2.remove_older /\ e.wt \in {"Rollback", "Lock", "Delete"})
          f3 == IF f2.remove_older THEN f2
                ELSE IF e.wt \in {"Put", "Delete"}
                     THEN [f2 EXCEPT !.remove_older = TRUE]
                ELSE f2
      IN IF ~filtered
         THEN FRes(f3, w2, d)
         ELSE FRes([f3 EXCEPT !.filtered = @ + 1], w2 \ {e},
                   handle_filtered_write(f3, e, d))

\* filter_key for which a Put does not make the versions below it removable.
filter_key_mvcc_put_keeps_older(f0, e, w0, d) ==
    IF <<e.k, e.cts>> = f0.last_user_key
    THEN FRes([f0 EXCEPT !.filtered = @ + 1], w0 \ {e}, d)
    ELSE
      LET f1 == [f0 EXCEPT !.last_user_key = <<e.k, e.cts>>]
          newPrefix == f1.mvcc_key_prefix # e.k
          f2 == IF newPrefix
                THEN [f1 EXCEPT !.mvcc_key_prefix = e.k,
                                !.remove_older = FALSE,
                                !.cached_mvcc_delete_key = {},
                                !.filtered = @ + Count(f1.cached_mvcc_delete_key)]
                ELSE f1
          w2 == IF newPrefix THEN w0 \ f1.cached_mvcc_delete_key ELSE w0
          filtered == f2.remove_older
                      \/ (~f2.remove_older /\ e.wt \in {"Rollback", "Lock"})
          f3 == IF f2.remove_older THEN f2
                ELSE IF e.wt = "Put" THEN f2
                ELSE IF e.wt = "Delete"
                     THEN [f2 EXCEPT !.remove_older = TRUE,
                                     !.cached_mvcc_delete_key = {e}]
                ELSE f2
      IN IF ~filtered
         THEN FRes(f3, w2, d)
         ELSE FRes([f3 EXCEPT !.filtered = @ + 1], w2 \ {e},
                   handle_filtered_write(f3, e, d))

\* The MVCC part of filter_key: entries that are neither skipped nor handled
\* by the skiplist-tombstone branch.
filter_key_mvcc(f0, e, w0, d) ==
    IF <<e.k, e.cts>> = f0.last_user_key
    THEN FRes([f0 EXCEPT !.filtered = @ + 1], w0 \ {e}, d)
    ELSE
      LET f1 == [f0 EXCEPT !.last_user_key = <<e.k, e.cts>>]
          newPrefix == f1.mvcc_key_prefix # e.k
          f2 == IF newPrefix
                THEN [f1 EXCEPT !.mvcc_key_prefix = e.k,
                                !.remove_older = FALSE,
                                !.cached_mvcc_delete_key = {},
                                !.filtered = @ + Count(f1.cached_mvcc_delete_key)]
                ELSE f1
          w2 == IF newPrefix THEN w0 \ f1.cached_mvcc_delete_key ELSE w0
          filtered == f2.remove_older
                      \/ (~f2.remove_older /\ e.wt \in {"Rollback", "Lock"})
          f3 == IF f2.remove_older THEN f2
                ELSE IF e.wt = "Put" THEN [f2 EXCEPT !.remove_older = TRUE]
                ELSE IF e.wt = "Delete"
                     THEN [f2 EXCEPT !.remove_older = TRUE,
                                     !.cached_mvcc_delete_key = {e}]
                ELSE f2
      IN IF ~filtered
         THEN FRes(f3, w2, d)
         ELSE FRes([f3 EXCEPT !.filtered = @ + 1], w2 \ {e},
                   handle_filtered_write(f3, e, d))

\* filter_key that removes a skiplist tombstone as soon as it meets it.
filter_key_tombstone_at_once(f, e, w, d) ==
    IF e.seq > f.oldest_seqno THEN FRes(f, w, d)
    ELSE IF e.cts > f.safe_point THEN FRes(f, w, d)
    ELSE IF e.vt = "Deletion"
    THEN FRes([f EXCEPT !.filtered = @ + 1], w \ {e}, d)
    ELSE filter_key_mvcc(f, e, w, d)

\* filter_key that leaves the entries under a skiplist tombstone in place.
filter_key_keeps_deleted(f, e, w, d) ==
    IF e.seq > f.oldest_seqno THEN FRes(f, w, d)
    ELSE IF e.cts > f.safe_point THEN FRes(f, w, d)
    ELSE IF e.vt = "Deletion"
    THEN FRes([f EXCEPT !.cached_skiplist_delete_key = {e},
                        !.filtered = @ + Count(f.cached_skiplist_delete_key)],
              w \ f.cached_skiplist_delete_key, d)
    ELSE IF \E c \in f.cached_skiplist_delete_key : c.k = e.k /\ c.cts = e.cts
    THEN FRes(f, w, d)
    ELSE filter_key_mvcc(
             [f EXCEPT !.cached_skiplist_delete_key = {},
                       !.filtered = @ + Count(f.cached_skiplist_delete_key)],
             e, w \ f.cached_skiplist_delete_key, d)

filter_key(f, e, w, d) ==
    IF e.seq > f.oldest_seqno THEN FRes(f, w, d)
    ELSE IF e.cts > f.safe_point THEN FRes(f, w, d)
    ELSE IF e.vt = "Deletion"
    THEN FRes([f EXCEPT !.cached_skiplist_delete_key = {e},
                        !.filtered = @ + Count(f.cached_skiplist_delete_key)],
              w \ f.cached_skiplist_delete_key, d)
    ELSE IF \E c \in f.cached_skiplist_delete_key : c.k = e.k /\ c.cts = e.cts
    THEN FRes([f EXCEPT !.filtered = @ + 1], w \ {e}, d)
    ELSE filter_key_mvcc(
             [f EXCEPT !.cached_skiplist_delete_key = {},
                       !.filtered = @ + Count(f.cached_skiplist_delete_key)],
             e, w \ f.cached_skiplist_delete_key, d)

RECURSIVE FilterFold(_, _, _)
FilterFold(acc, es, i) ==
    IF i > Len(es) THEN acc
    ELSE FilterFold(filter_key(acc.f, es[i], acc.w, acc.d), es, i + 1)

\* Iterates the write column over [start, end) of the range.
filter_keys_in_range(f, range, w, d) ==
    FilterFold(FRes(f, w, d),
               SortedEntries({e \in w : InRange(e.k, range)}), 1)

\* Drop for Filter: the cached delete keys are removed last.
FilterDrop(f, w) ==
    (w \ f.cached_mvcc_delete_key) \ f.cached_skiplist_delete_key

\* ------------------------------------------------------------------------
\* Region manager (interface operations)
\* ------------------------------------------------------------------------
\* try_set_regions_in_gc(v): compare-and-swap of the guard from ~v to v;
\* the result is whether the swap took place.
try_set_regions_in_gc(guard, v) == guard # v

\* Minimum read timestamp of the snapshot list of a region, or u64::MAX.
min_snapshot_ts(m) ==
    IF m.snaps = {} THEN U64Max ELSE SetMin({p[2] : p \in m.snaps})

\* Minimum snapshot timestamp over the historical records overlapping range.
get_history_regions_min_ts(h, range) ==
    LET S == {x.ts : x \in {y \in h : Overlaps(y.rng, range)}}
    IN IF S = {} THEN U64Max ELSE SetMin(S)

\* on_gc_region_finished(region): clears in_gc of that region; after an
\* epoch-version change, of the regions that replaced it.
on_gc_region_finished(rs, region) ==
    [id \in RegionIds |->
        IF /\ rs[id].state # "Absent"
           /\ \/ id = region.id /\ rs[id].ver = region.ver
              \/ /\ rs[region.id].ver # region.ver
                 /\ contains_range(region.rng, rs[id].rng)
        THEN [rs[id] EXCEPT !.in_gc = FALSE]
        ELSE rs[id]]

ActiveRegions(rs) ==
    {MetaRegion(id, rs[id]) : id \in {i \in RegionIds : rs[i].state = "Active"}}

\* ------------------------------------------------------------------------
\* Tasks
\* ------------------------------------------------------------------------
GcTask(safe_point) == [type |-> "Gc", safe_point |-> safe_point]

\* A future spawned on the gc pool: the regions returned by regions_for_gc,
\* the task's safe point, the oldest sequence number, and the position of the
\* pool thread inside the future.
GcPass(rs, safe_point, seqno) ==
    [regions |-> rs, safe_point |-> safe_point, seqno |-> seqno, idx |-> 1,
     pc |-> "gc_region", flt |-> NoFilter]

\* Oldest sequence numbers the disk engine may report:
\* get_oldest_snapshot_sequence_number(), or else the latest sequence number.
SeqNos == {1, 2}

RocksEngine(some, seq) == [some |-> some, seq |-> seq]

\* ------------------------------------------------------------------------
\* BackgroundRunner::run, BackgroundTask::Gc
\* ------------------------------------------------------------------------
\* Callers (the tick driver among them) schedule a Gc task.
ScheduleGc ==
    /\ ~panicked
    /\ gcScheduled < MaxGcTasks
    /\ Len(taskQ) < MaxQueue
    /\ \E sp \in 1..MaxTs : taskQ' = Append(taskQ, GcTask(sp))
    /\ gcScheduled' = gcScheduled + 1
    /\ UNCHANGED <<cfgVars, extVars, rmVars, snapVars, slVars, delQ, gcVars, loadVars, delVars,
                   envOps, loadOps, panicked>>

\* regions_for_gc: empty when the guard is already set, else the Active
\* regions, in the order of the region map.
regions_for_gc(guard, rs) ==
    IF ~try_set_regions_in_gc(guard, TRUE) THEN <<>>
    ELSE RegionsById(ActiveRegions(rs))

\* The runner thread takes a Gc task. Without a disk engine the task is
\* dropped; otherwise regions_for_gc runs and either a pass is spawned on the
\* gc pool or the thread goes on to call on_gc_finished itself.
RunGc ==
    /\ ~panicked
    /\ workerPc = "idle"
    /\ taskQ # <<>>
    /\ Head(taskQ).type = "Gc"
    /\ taskQ' = Tail(taskQ)
    /\ IF ~rocks_engine.some
       THEN UNCHANGED <<is_gc_task_running, gcPool, workerPc>>
       ELSE LET rs == regions_for_gc(is_gc_task_running, regions)
                seqno == rocks_engine.seq
            IN   /\ is_gc_task_running' = TRUE
                 /\ IF rs # <<>>
                    THEN /\ gcPool' = Append(gcPool,
                                GcPass(rs, Head(taskQ).safe_point, seqno))
                         /\ UNCHANGED workerPc
                    ELSE /\ workerPc' = "on_gc_finished"
                         /\ UNCHANGED gcPool
    /\ UNCHANGED <<cfgVars, extVars, regions, history, ranges_being_written, snapVars, slVars,
                   delQ, rocks_engine, loadVars, delVars, envVars, panicked>>

\* on_gc_finished: the guard is swapped back to false; the swap must succeed.
on_gc_finished_ok(guard) == try_set_regions_in_gc(guard, FALSE)

\* The runner thread, after regions_for_gc returned no region.
RunGcNoRegions ==
    /\ ~panicked
    /\ workerPc = "on_gc_finished"
    /\ workerPc' = "idle"
    /\ panicked' = ~on_gc_finished_ok(is_gc_task_running)
    /\ is_gc_task_running' = FALSE
    /\ UNCHANGED <<cfgVars, extVars, regions, history, ranges_being_written, snapVars, slVars,
                   qVars, gcPool, rocks_engine, loadVars, delVars, envVars>>

\* ------------------------------------------------------------------------
\* Memory accounting of skiplist entries
\* ------------------------------------------------------------------------
\* calc_put_entry_size of an entry: key bytes plus value bytes.  A write
\* record with a short value is larger; a tombstone has an empty value.
WSize(e) == IF e.vt = "Deletion" THEN 1 ELSE IF e.short THEN 3 ELSE 2

DSize(e) == 3

LSize(e) == 2

RECURSIVE SumW(_)
SumW(S) == IF S = {} THEN 0
           ELSE LET x == CHOOSE y \in S : TRUE IN WSize(x) + SumW(S \ {x})

RECURSIVE SumD(_)
SumD(S) == IF S = {} THEN 0
           ELSE LET x == CHOOSE y \in S : TRUE IN DSize(x) + SumD(S \ {x})

RECURSIVE SumL(_)
SumL(S) == IF S = {} THEN 0
           ELSE LET x == CHOOSE y \in S : TRUE IN LSize(x) + SumL(S \ {x})

\* Bytes held by the entries of the three columns.
LiveBytes(w, d, l) == SumW(w) + SumD(d) + SumL(l)

\* Entries release their bytes when they are removed from the skiplist.
Released(w0, d0, l0, w1, d1, l1) ==
    LiveBytes(w0 \ w1, d0 \ d1, l0 \ l1)

\* ------------------------------------------------------------------------
\* BackgroundRunnerCore::gc_region, run by the head future of the gc pool
\* ------------------------------------------------------------------------
\* The safe point of gc_region without the historical records.
gc_safe_point_ignores_history(m, h, range, safe_point) ==
    Min2(safe_point, min_snapshot_ts(m))

\* The effective safe point: the task's, bounded by the region's snapshots
\* and by the historical records overlapping the range.
gc_safe_point(m, h, range, safe_point) ==
    Min2(Min2(safe_point, min_snapshot_ts(m)),
         get_history_regions_min_ts(h, range))

\* gc_region that installs whatever safe point it computed.
gc_region_skips_any_safe_point(m, h, range, safe_point) ==
    \/ m.state = "Absent"
    \/ m.state # "Active"
    \/ ~contains_range(range, m.rng)

\* gc_region that does not look at the region's entry and state.
gc_region_skips_any_state(m, h, range, safe_point) ==
    \/ ~contains_range(range, m.rng)
    \/ gc_safe_point(m, h, range, safe_point) <= m.safe_point

\* gc_region returns without filtering.
gc_region_skips(m, h, range, safe_point) ==
    \/ m.state = "Absent"
    \/ m.state # "Active"
    \/ ~contains_range(range, m.rng)
    \/ gc_safe_point(m, h, range, safe_point) <= m.safe_point

HeadPass == Head(gcPool)

SetHeadPass(p) == [gcPool EXCEPT ![1] = p]

\* First critical section of gc_region (write lock held).
GcRegionBegin ==
    /\ ~panicked
    /\ gcPool # <<>>
    /\ HeadPass.pc = "gc_region"
    /\ HeadPass.idx <= Len(HeadPass.regions)
    /\ LET p == HeadPass
           region == p.regions[p.idx]
           m == regions[region.id]
           sp == gc_safe_point(m, history, region.rng, p.safe_point)
       IN IF gc_region_skips(m, history, region.rng, p.safe_point)
          THEN /\ gcPool' = SetHeadPass([p EXCEPT !.idx = @ + 1])
               /\ UNCHANGED regions
          ELSE /\ regions' = [regions EXCEPT ![region.id].safe_point = sp,
                                             ![region.id].in_gc = TRUE]
               /\ gcPool' = SetHeadPass([p EXCEPT !.pc = "filter",
                                                  !.flt = FilterNew(sp, p.seqno)])
    /\ UNCHANGED <<cfgVars, extVars, is_gc_task_running, history, ranges_being_written,
                   snapVars, slVars, qVars, workerPc, rocks_engine, loadVars,
                   delVars, envVars, panicked>>

\* filter.filter_keys_in_range(&range), outside the lock.
GcRegionFilter ==
    /\ ~panicked
    /\ gcPool # <<>>
    /\ HeadPass.pc = "filter"
    /\ LET p == HeadPass
           region == p.regions[p.idx]
           res == filter_keys_in_range(p.flt, region.rng, write_cf, default_cf)
       IN /\ write_cf' = res.w
          /\ default_cf' = res.d
          /\ used' = used - Released(write_cf, default_cf, {}, res.w, res.d, {})
          /\ gcPool' = SetHeadPass([p EXCEPT !.pc = "finished", !.flt = res.f])
    /\ UNCHANGED <<cfgVars, extVars, rmVars, snapVars, lock_cf, qVars, workerPc, rocks_engine,
                   loadVars, delVars, envVars, panicked>>

\* Second critical section of gc_region: on_gc_region_finished.
GcRegionFinished ==
    /\ ~panicked
    /\ gcPool # <<>>
    /\ HeadPass.pc = "finished"
    /\ LET p == HeadPass
       IN /\ regions' = on_gc_region_finished(regions, p.regions[p.idx])
          /\ gcPool' = SetHeadPass([p EXCEPT !.pc = "drop"])
    /\ UNCHANGED <<cfgVars, extVars, is_gc_task_running, history, ranges_being_written,
                   snapVars, slVars, qVars, workerPc, rocks_engine, loadVars,
                   delVars, envVars, panicked>>

\* The filter goes out of scope at the end of gc_region: Drop for Filter.
GcRegionDrop ==
    /\ ~panicked
    /\ gcPool # <<>>
    /\ HeadPass.pc = "drop"
    /\ LET p == HeadPass
           w == FilterDrop(p.flt, write_cf)
       IN /\ write_cf' = w
          /\ used' = used - Released(write_cf, {}, {}, w, {}, {})
          /\ gcPool' = SetHeadPass([p EXCEPT !.pc = "gc_region", !.idx = @ + 1,
                                             !.flt = NoFilter])
    /\ UNCHANGED <<cfgVars, extVars, rmVars, snapVars, default_cf, lock_cf, qVars, workerPc,
                   rocks_engine, loadVars, delVars, envVars, panicked>>

\* End of the spawned future: core.on_gc_finished().
GcPassFinish ==
    /\ ~panicked
    /\ gcPool # <<>>
    /\ HeadPass.pc = "gc_region"
    /\ HeadPass.idx > Len(HeadPass.regions)
    /\ panicked' = ~on_gc_finished_ok(is_gc_task_running)
    /\ is_gc_task_running' = FALSE
    /\ gcPool' = Tail(gcPool)
    /\ UNCHANGED <<cfgVars, extVars, regions, history, ranges_being_written, snapVars, slVars,
                   qVars, workerPc, rocks_engine, loadVars, delVars, envVars>>

\* ------------------------------------------------------------------------
\* Readers: read snapshots on Active regions
\* ------------------------------------------------------------------------
Keys == {0, 1, 2}

\* The user keys (k, cts) of the write column that exist: the newest internal
\* entry of the user key is not a skiplist tombstone.
TopEntries(w, k) ==
    {e \in w : /\ e.k = k
               /\ \A x \in w : (x.k = k /\ x.cts = e.cts) => x.seq <= e.seq
               /\ e.vt = "Value"}

\* What an MVCC read of key k at read timestamp ts returns: the newest Put
\* or Delete record with commit_ts <= ts decides; Lock and Rollback records
\* are skipped; a Put without short value needs its default-column payload.
ReadAt(w, d, k, ts) ==
    LET C == {e \in TopEntries(w, k) : e.cts <= ts /\ e.wt \in {"Put", "Delete"}}
    IN IF C = {} THEN <<"NotFound">>
       ELSE LET e == CHOOSE x \in C : \A y \in C : y.cts <= x.cts
            IN IF e.wt = "Delete" THEN <<"NotFound">>
               ELSE IF e.short THEN <<"Value", e.cts>>
               ELSE IF \E x \in d : x.k = k /\ x.sts = e.sts
                    THEN <<"Value", e.cts>>
               ELSE <<"Broken", e.cts>>

View(w, d, range, ts) ==
    [k \in {x \in Keys : InRange(x, range)} |-> ReadAt(w, d, k, ts)]

\* acquire_snapshot(region_id, read_ts): fails unless the region is Active;
\* otherwise the read timestamp joins the region's snapshot list.
AcquireSnapshot ==
    /\ ~panicked
    /\ envOps < MaxEnvOps
    /\ \E rid \in RegionIds, ts \in 1..MaxTs :
         /\ regions[rid].state = "Active"
         /\ regions' = [regions EXCEPT ![rid].snaps = @ \cup {<<nextSid + 1, ts>>}]
         /\ snapshots' = snapshots \cup
               {[sid |-> nextSid + 1, rid |-> rid, ts |-> ts,
                 rng |-> regions[rid].rng]}
    /\ nextSid' = nextSid + 1
    /\ envOps' = envOps + 1
    /\ UNCHANGED <<cfgVars, extVars, is_gc_task_running, history, ranges_being_written, slVars,
                   qVars, gcVars, loadVars, delVars, gcScheduled, loadOps, panicked>>

DropSnap(rs, sid) ==
    [id \in RegionIds |-> [rs[id] EXCEPT !.snaps = {p \in @ : p[1] # sid}]]

\* An evicted region can be erased once no snapshot, its own or a
\* historical one, still covers its range.
Deleteable(rs, h, id) ==
    /\ rs[id].state = "Evicting"
    /\ rs[id].snaps = {}
    /\ ~\E x \in h : Overlaps(x.rng, rs[id].rng)

\* BackgroundTask::DeleteRegions(regions)
DeleteRegionsTask(rq) == [type |-> "DeleteRegions", regions |-> rq]

schedule_task_all_to_runner(tq, dq, task) ==
    [taskQ |-> Append(tq, task), delQ |-> dq]

\* BgWorkManager::schedule_task: DeleteRegions goes to the scheduler of the
\* delete-range runner, every other task to the scheduler of the background
\* runner.  The result is the pair of queues after schedule_force.
schedule_task(tq, dq, task) ==
    IF task.type = "DeleteRegions"
    THEN [taskQ |-> tq, delQ |-> Append(dq, task)]
    ELSE [taskQ |-> Append(tq, task), delQ |-> dq]

\* A reader drops its snapshot.  Evicted regions that the snapshot was the
\* last one to cover become deleteable and are handed to schedule_task.
ReleaseSnapshot ==
    /\ ~panicked
    /\ \E s \in snapshots :
         LET rs == DropSnap(regions, s.sid)
             h == {x \in history : x.sid # s.sid}
             del == {id \in RegionIds : /\ Deleteable(rs, h, id)
                                        /\ ~Deleteable(regions, history, id)}
         IN /\ snapshots' = snapshots \ {s}
            /\ regions' = rs
            /\ history' = h
            /\ LET q == schedule_task(taskQ, delQ, DeleteRegionsTask(
                              RegionsById({MetaRegion(id, rs[id]) : id \in del})))
               IN IF del = {} THEN UNCHANGED qVars
                  ELSE taskQ' = q.taskQ /\ delQ' = q.delQ
    /\ UNCHANGED <<cfgVars, extVars, is_gc_task_running, ranges_being_written, nextSid, slVars,
                   gcVars, loadVars, delVars, envVars, panicked>>

\* ------------------------------------------------------------------------
\* Region manager: evict_region, region split, the write path
\* ------------------------------------------------------------------------
EvictReasons == {"AutoEvict", "MemoryLimitReached"}

\* History records made of the snapshot list of a region.
SnapsToHistory(m) == {[rng |-> m.rng, ts |-> p[2], sid |-> p[1]] : p \in m.snaps}

\* evict_region(region, reason) on one RangeMeta.  Pending, ReadyToLoad and
\* Active become Evicting with the reason recorded; Loading becomes
\* LoadingCanceled; every other state is left alone.
evict_meta(m, reason) ==
    IF m.state \in {"Pending", "ReadyToLoad", "Active"}
    THEN [m EXCEPT !.state = "Evicting", !.reason = reason, !.snaps = {}]
    ELSE IF m.state = "Loading"
    THEN [m EXCEPT !.state = "LoadingCanceled", !.asked = reason]
    ELSE m

\* A caller evicts a region that it finds in one of the given states; the
\* regions that are deleteable at once go to the delete-range runner.
EvictRegionIn(states) ==
    /\ ~panicked
    /\ envOps < MaxEnvOps
    /\ \E rid \in RegionIds, reason \in EvictReasons :
         LET m == regions[rid]
             rs == [regions EXCEPT ![rid] = evict_meta(m, reason)]
             h == IF m.state = "Active" THEN history \cup SnapsToHistory(m)
                  ELSE history
         IN /\ m.state \in states
            /\ regions' = rs
            /\ history' = h
            /\ LET q == schedule_task(taskQ, delQ,
                              DeleteRegionsTask(<<MetaRegion(rid, rs[rid])>>))
               IN IF Deleteable(rs, h, rid)
                  THEN taskQ' = q.taskQ /\ delQ' = q.delQ
                  ELSE UNCHANGED qVars
    /\ envOps' = envOps + 1
    /\ UNCHANGED <<cfgVars, extVars, is_gc_task_running, ranges_being_written, snapVars, slVars,
                   gcVars, loadVars, delVars, gcScheduled, loadOps, panicked>>

EvictRegion == EvictRegionIn({"Pending", "ReadyToLoad", "Loading", "Active"})

\* evict_region called while the loader is at work on the region.
EvictWhileLoading == EvictRegionIn({"Loading"})

\* The split the model lets happen: region 1 over [0, 2) at version 0
\* becomes region 1 over [0, 1) and region 3 over [1, 2), both at version 1.
SplitSource == Region(1, 0, 0, 2)

SplitChildren == {Region(1, 1, 0, 1), Region(3, 1, 1, 2)}

\* RegionEvent::Split: the children replace the source and inherit its state,
\* safe point and in_gc flag; the source's snapshots become historical records.
derive_from(r, m) ==
    [m EXCEPT !.ver = r.ver, !.rng = r.rng, !.snaps = {}]

Split ==
    /\ ~panicked
    /\ envOps < MaxEnvOps
    /\ LET m == regions[SplitSource.id]
       IN /\ m.state \in {"Active", "Loading", "LoadingCanceled"}
          /\ m.ver = SplitSource.ver
          /\ m.rng = SplitSource.rng
          /\ \A c \in SplitChildren :
                c.id = SplitSource.id \/ regions[c.id].state = "Absent"
          /\ regions' = [id \in RegionIds |->
                IF \E c \in SplitChildren : c.id = id
                THEN derive_from(CHOOSE c \in SplitChildren : c.id = id, m)
                ELSE regions[id]]
          /\ history' = history \cup SnapsToHistory(m)
    /\ envOps' = envOps + 1
    /\ UNCHANGED <<cfgVars, extVars, is_gc_task_running, ranges_being_written, snapVars, slVars,
                   qVars, gcVars, loadVars, delVars, gcScheduled, loadOps, panicked>>

\* The write path registers the range of a cached region for the duration
\* of an apply, and removes it afterwards.
WriterBegin ==
    /\ ~panicked
    /\ loadOps < MaxLoadOps
    /\ \E rid \in RegionIds :
         /\ regions[rid].state = "Active"
         /\ ~\E w \in ranges_being_written : w.id = rid
         /\ ranges_being_written' = ranges_being_written \cup
                                      {[id |-> rid, rng |-> regions[rid].rng]}
    /\ loadOps' = loadOps + 1
    /\ UNCHANGED <<cfgVars, extVars, regions, is_gc_task_running, history, snapVars, slVars,
                   qVars, gcVars, loadVars, delVars, gcScheduled, envOps, panicked>>

WriterEnd ==
    /\ ~panicked
    /\ \E w \in ranges_being_written :
         ranges_being_written' = ranges_being_written \ {w}
    /\ UNCHANGED <<cfgVars, extVars, regions, is_gc_task_running, history, snapVars, slVars,
                   qVars, gcVars, loadVars, delVars, envVars, panicked>>

is_overlapped_with_regions_being_written(rbw, range) ==
    \E w \in rbw : Overlaps(w.rng, range)

\* ------------------------------------------------------------------------
\* Memory controller
\* ------------------------------------------------------------------------
SoftLimit == 11

HardLimit == 16

reached_soft_limit(u) == u >= SoftLimit

\* acquire(n): HardLimitReached leaves the counter as it was.
acquire_ok(u, n) == u + n <= hard_limit

acquire(u, n) == IF acquire_ok(u, n) THEN u + n ELSE u

\* What a configuration change adds to hard_limit_threshold.
HardLimitRaise == 4

\* RangeCacheConfigManager::dispatch of a change of hard_limit_threshold: the
\* memory controller reads the threshold from the configuration at each
\* acquire.
RaiseHardLimit ==
    /\ ~panicked
    /\ hard_limit = HardLimit
    /\ hard_limit' = HardLimit + HardLimitRaise
    /\ UNCHANGED <<extVars, rmVars, snapVars, slVars, qVars, gcVars, loadVars, delVars,
                   envVars, panicked>>

\* ------------------------------------------------------------------------
\* The disk engine: what a disk snapshot iterates, column by column in the
\* order of DATA_CFS (default, lock, write), keys ascending
\* ------------------------------------------------------------------------
Disk ==
    << [cf |-> "default", k |-> 0, sts |-> 2],
       [cf |-> "lock", k |-> 2],
       [cf |-> "write", k |-> 0, cts |-> 2, wt |-> "Put", sts |-> 2, short |-> FALSE],
       [cf |-> "write", k |-> 0, cts |-> 1, wt |-> "Put", sts |-> 1, short |-> TRUE],
       [cf |-> "write", k |-> 1, cts |-> 1, wt |-> "Put", sts |-> 1, short |-> TRUE],
       [cf |-> "write", k |-> 2, cts |-> 2, wt |-> "Delete", sts |-> 2, short |-> FALSE] >>

InRangeOfDisk(range) == SelectSeq(Disk, LAMBDA e : InRange(e.k, range))

\* The sequence number of the disk snapshot captured for a region.
DiskSeq(region) == region.id

LEntry(k, seq) == [k |-> k, seq |-> seq]

\* A load loop that encodes the keys it inserts as tombstones.
Loaded_as_deletion(e, seq) ==
    IF e.cf = "default" THEN DEntry(e.k, e.sts, seq)
    ELSE IF e.cf = "lock" THEN LEntry(e.k, seq)
    ELSE WEntry(e.k, e.cts, seq, "Deletion", e.wt, e.sts, e.short)

\* encode_key(key, seq, ValueType::Value) and the value read from disk.
Loaded(e, seq) ==
    IF e.cf = "default" THEN DEntry(e.k, e.sts, seq)
    ELSE IF e.cf = "lock" THEN LEntry(e.k, seq)
    ELSE WEntry(e.k, e.cts, seq, "Value", e.wt, e.sts, e.short)

\* A load loop that acquires nothing for the entries it inserts.
mem_size_uncounted(e) == 0

\* calc_put_entry_size of a disk entry.
mem_size(e) ==
    IF e.cf = "default" THEN DSize(e)
    ELSE IF e.cf = "lock" THEN LSize(e)
    ELSE WSize(Loaded(e, 0))

\* ------------------------------------------------------------------------
\* Loading regions
\* ------------------------------------------------------------------------
\* Regions that top-region rebalancing or a load hint may ask to cache.
LoadCandidates == {Region(1, 0, 0, 2), Region(2, 0, 1, 3)}

\* load_region of the region manager: AlreadyExists when the id is known or
\* an Active region overlaps; otherwise the region is inserted as Pending.
load_region_ok(rs, r) ==
    /\ rs[r.id].state = "Absent"
    /\ ~\E id \in RegionIds : rs[id].state = "Active" /\ Overlaps(rs[id].rng, r.rng)

load_region(rs, r) ==
    IF load_region_ok(rs, r) THEN [rs EXCEPT ![r.id] = NewMeta(r, "Pending")]
    ELSE rs

\* top_regions_load_evict (regions_to_add) and the hint service call
\* load_region under the write lock; an error is only logged.
LoadRegionCall ==
    /\ ~panicked
    /\ loadOps < MaxLoadOps
    /\ \E r \in LoadCandidates : regions' = load_region(regions, r)
    /\ loadOps' = loadOps + 1
    /\ UNCHANGED <<cfgVars, extVars, is_gc_task_running, history, ranges_being_written, snapVars,
                   slVars, qVars, gcVars, loadVars, delVars, gcScheduled, envOps,
                   panicked>>

LoadTask(region, seq) == [type |-> "LoadRegion", region |-> region, seq |-> seq]

\* The apply path meets a Pending region: it captures a disk snapshot, moves
\* the region to ReadyToLoad and schedules LoadRegion.
PrepareForApply ==
    /\ ~panicked
    /\ \E rid \in RegionIds :
         /\ regions[rid].state = "Pending"
         /\ regions' = [regions EXCEPT ![rid].state = "ReadyToLoad"]
         /\ taskQ' = Append(taskQ, LoadTask(MetaRegion(rid, regions[rid]),
                                            DiskSeq(MetaRegion(rid, regions[rid]))))
    /\ UNCHANGED <<cfgVars, extVars, is_gc_task_running, history, ranges_being_written, snapVars,
                   slVars, delQ, gcVars, loadVars, delVars, envVars, panicked>>

\* A future on the load pool: region, snapshot sequence number, position,
\* is_canceled, the entries the snapshot iterators still have to yield, and
\* the safe point computed by the load.
LoadFut(region, seq) ==
    [region |-> region, seq |-> seq, pc |-> "start", is_canceled |-> FALSE,
     todo |-> <<>>, safe_point |-> 0]

\* BackgroundRunner::run, BackgroundTask::LoadRegion: spawn on the load pool.
RunLoad ==
    /\ ~panicked
    /\ workerPc = "idle"
    /\ taskQ # <<>>
    /\ Head(taskQ).type = "LoadRegion"
    /\ taskQ' = Tail(taskQ)
    /\ loadPool' = Append(loadPool, LoadFut(Head(taskQ).region, Head(taskQ).seq))
    /\ UNCHANGED <<cfgVars, extVars, rmVars, snapVars, slVars, delQ, gcVars, delVars, envVars,
                   panicked>>

HeadLoad == Head(loadPool)

SetHeadLoad(f) == [loadPool EXCEPT ![1] = f]

\* Metas a completion handler visits: the region-id entry when the epoch
\* version is unchanged, otherwise every entry overlapping the region's range.
OverlappedIds(rs, range) ==
    {id \in RegionIds : rs[id].state # "Absent" /\ Overlaps(rs[id].rng, range)}

\* A completion handler that never scans for overlapping regions.
VisitedIds_no_scan(rs, region) == {region.id}

VisitedIds(rs, region) ==
    IF rs[region.id].ver = region.ver THEN {region.id}
    ELSE OverlappedIds(rs, region.rng)

\* unwrap() of the region-id entry and the assertions of the handlers.
load_handler_panics(rs, region) ==
    \/ rs[region.id].state = "Absent"
    \/ \E id \in VisitedIds(rs, region) :
          \/ rs[id].state \notin {"Loading", "LoadingCanceled"}
          \/ /\ rs[region.id].ver # region.ver
             /\ ~contains_range(region.rng, rs[id].rng)

\* mark_evict(state, reason)
mark_evict(m, state, reason) == [m EXCEPT !.state = state, !.reason = reason]

\* on_region_meta that does not look for a cancelled load.
on_region_meta_ignores_cancel(m, safe_point) ==
    [m EXCEPT !.state = "Active", !.safe_point = safe_point]

\* on_region_meta that hands on the reason of the cancelling evict_region.
on_region_meta_keeps_asked(m, safe_point) ==
    IF m.state = "Loading"
    THEN [m EXCEPT !.state = "Active", !.safe_point = safe_point]
    ELSE [m EXCEPT !.state = "Evicting", !.reason = m.asked]

\* on_region_meta of on_snapshot_load_finished.
on_region_meta(m, safe_point) ==
    IF m.state = "Loading"
    THEN [m EXCEPT !.state = "Active", !.safe_point = safe_point]
    ELSE mark_evict(m, "Evicting", "LoadFailed")

on_snapshot_load_finished(rs, region, safe_point) ==
    [id \in RegionIds |->
        IF id \in VisitedIds(rs, region) THEN on_region_meta(rs[id], safe_point)
        ELSE rs[id]]

load_finished_removes(rs, region) ==
    {id \in VisitedIds(rs, region) : rs[id].state = "LoadingCanceled"}

\* What on_snapshot_load_finished returns.
load_finished_returns(rs, region) == load_finished_removes(rs, region) = {}

\* mark_region_evicted that reports every failed load as not started.
mark_region_evicted_never_started(m, started) ==
    mark_evict(m, "Evicting", "LoadFailedWithoutStart")

\* mark_region_evicted of on_snapshot_load_failed.
mark_region_evicted(m, started) ==
    mark_evict(m, "Evicting",
               IF started THEN "LoadFailed" ELSE "LoadFailedWithoutStart")

on_snapshot_load_failed(rs, region, started) ==
    [id \in RegionIds |->
        IF id \in VisitedIds(rs, region) THEN mark_region_evicted(rs[id], started)
        ELSE rs[id]]

DeleteTask(rs, ids) ==
    DeleteRegionsTask(RegionsById({MetaRegion(id, rs[id]) : id \in ids}))

\* The future starts: first critical section of the loader.
LoadStart ==
    /\ ~panicked
    /\ loadPool # <<>>
    /\ HeadLoad.pc = "start"
    /\ LET f == HeadLoad
           m == regions[f.region.id]
       IN IF m.state = "Absent" \/ m.state \notin {"ReadyToLoad", "LoadingCanceled"}
          THEN /\ panicked' = TRUE
               /\ UNCHANGED <<regions, loadPool>>
          ELSE /\ regions' = IF m.state = "ReadyToLoad"
                             THEN [regions EXCEPT ![f.region.id].state = "Loading"]
                             ELSE regions
               /\ loadPool' = SetHeadLoad([f EXCEPT !.pc = "check",
                                  !.is_canceled = (m.state # "ReadyToLoad")])
               /\ UNCHANGED panicked
    /\ UNCHANGED <<cfgVars, extVars, is_gc_task_running, history, ranges_being_written, snapVars,
                   slVars, qVars, gcVars, delVars, envVars>>

\* reached_soft_limit cancels the load as well; a cancelled load reports
\* on_snapshot_load_failed(started = false).
LoadCheck ==
    /\ ~panicked
    /\ loadPool # <<>>
    /\ HeadLoad.pc = "check"
    /\ LET f == HeadLoad
       IN IF f.is_canceled \/ reached_soft_limit(used)
          THEN IF load_handler_panics(regions, f.region)
               THEN /\ panicked' = TRUE
                    /\ UNCHANGED <<regions, loadPool, delQ>>
               ELSE /\ regions' = on_snapshot_load_failed(regions, f.region, FALSE)
                    /\ delQ' = Append(delQ,
                                 DeleteTask(regions, VisitedIds(regions, f.region)))
                    /\ loadPool' = Tail(loadPool)
                    /\ UNCHANGED panicked
          ELSE /\ loadPool' = SetHeadLoad([f EXCEPT !.pc = "load",
                                  !.todo = InRangeOfDisk(f.region.rng)])
               /\ UNCHANGED <<regions, delQ, panicked>>
    /\ UNCHANGED <<cfgVars, extVars, is_gc_task_running, history, ranges_being_written, snapVars,
                   slVars, taskQ, gcVars, delVars, envVars>>

\* One round of the load loop: acquire, then insert.
LoadEntry ==
    /\ ~panicked
    /\ loadPool # <<>>
    /\ HeadLoad.pc = "load"
    /\ HeadLoad.todo # <<>>
    /\ LET f == HeadLoad
           e == Head(f.todo)
           x == Loaded(e, f.seq)
       IN IF ~acquire_ok(used, mem_size(e))
          THEN /\ loadPool' = SetHeadLoad([f EXCEPT !.pc = "failed"])
               /\ UNCHANGED slVars
          ELSE /\ used' = acquire(used, mem_size(e))
               /\ write_cf' = IF e.cf = "write" THEN write_cf \cup {x} ELSE write_cf
               /\ default_cf' = IF e.cf = "default" THEN default_cf \cup {x}
                                ELSE default_cf
               /\ lock_cf' = IF e.cf = "lock" THEN lock_cf \cup {x} ELSE lock_cf
               /\ loadPool' = SetHeadLoad([f EXCEPT !.todo = Tail(@)])
    /\ UNCHANGED <<cfgVars, extVars, rmVars, snapVars, qVars, gcVars, delVars, envVars, panicked>>

\* ------------------------------------------------------------------------
\* The safe point of a load: get_tso, then the initial GC of the loaded range
\* ------------------------------------------------------------------------
\* gc_interval in milliseconds.
GcInterval == 1

\* Physical times the placement service may answer with.
PdNow == {0, GcInterval + 1}

saturating_sub(a, b) == IF a >= b THEN a - b ELSE 0

\* TimeStamp::compose(physical, logical): physical << 18 | logical.
compose(physical, logical) == physical * 262144 + logical

load_safe_point(now) == compose(saturating_sub(now, GcInterval), 0)

\* All entries are in: get_tso fails (safe point 0, no GC) or the loaded
\* range is filtered once; the filter is dropped at the end of the block.
LoadGc ==
    /\ ~panicked
    /\ loadPool # <<>>
    /\ HeadLoad.pc = "load"
    /\ HeadLoad.todo = <<>>
    /\ LET f == HeadLoad
       IN \/ /\ loadPool' = SetHeadLoad([f EXCEPT !.pc = "finish", !.safe_point = 0])
             /\ UNCHANGED slVars
          \/ \E now \in PdNow :
               LET sp == load_safe_point(now)
                   res == filter_keys_in_range(FilterNew(sp, U64Max), f.region.rng,
                                               write_cf, default_cf)
                   w == FilterDrop(res.f, res.w)
               IN /\ write_cf' = w
                  /\ default_cf' = res.d
                  /\ used' = used - Released(write_cf, default_cf, {}, w, res.d, {})
                  /\ UNCHANGED lock_cf
                  /\ loadPool' = SetHeadLoad([f EXCEPT !.pc = "finish",
                                                       !.safe_point = sp])
    /\ UNCHANGED <<cfgVars, extVars, rmVars, snapVars, qVars, gcVars, delVars, envVars, panicked>>

\* on_snapshot_load_finished under the write lock; cancelled regions are
\* handed to the delete-range runner.
LoadFinish ==
    /\ ~panicked
    /\ loadPool # <<>>
    /\ HeadLoad.pc = "finish"
    /\ LET f == HeadLoad
           removed == load_finished_removes(regions, f.region)
       IN IF load_handler_panics(regions, f.region)
          THEN /\ panicked' = TRUE
               /\ UNCHANGED <<regions, loadPool, delQ>>
          ELSE /\ regions' = on_snapshot_load_finished(regions, f.region, f.safe_point)
               /\ delQ' = IF removed = {} THEN delQ
                          ELSE Append(delQ, DeleteTask(regions, removed))
               /\ loadPool' = Tail(loadPool)
               /\ UNCHANGED panicked
    /\ UNCHANGED <<cfgVars, extVars, is_gc_task_running, history, ranges_being_written, snapVars,
                   slVars, taskQ, gcVars, delVars, envVars>>

\* The load stopped at the hard limit: on_snapshot_load_failed(started = true).
LoadFailed ==
    /\ ~panicked
    /\ loadPool # <<>>
    /\ HeadLoad.pc = "failed"
    /\ LET f == HeadLoad
       IN IF load_handler_panics(regions, f.region)
          THEN /\ panicked' = TRUE
               /\ UNCHANGED <<regions, loadPool, delQ>>
          ELSE /\ regions' = on_snapshot_load_failed(regions, f.region, TRUE)
               /\ delQ' = Append(delQ,
                            DeleteTask(regions, VisitedIds(regions, f.region)))
               /\ loadPool' = Tail(loadPool)
               /\ UNCHANGED panicked
    /\ UNCHANGED <<cfgVars, extVars, is_gc_task_running, history, ranges_being_written, snapVars,
                   slVars, taskQ, gcVars, delVars, envVars>>

\* ------------------------------------------------------------------------
\* DeleteRangeRunner
\* ------------------------------------------------------------------------
\* unwrap() and the two assertions at the head of the loop body.
delete_run_panics(rs, rq) ==
    \E i \in 1..Len(rq) :
       \/ rs[rq[i].id].state = "Absent"
       \/ rs[rq[i].id].ver # rq[i].ver
       \/ rs[rq[i].id].state # "Evicting"

must_delay(rs, rbw, r) ==
    \/ rs[r.id].in_gc
    \/ is_overlapped_with_regions_being_written(rbw, rs[r.id].rng)

\* The runner between tasks, and while it works on the regions it decided
\* to delete: "erase" until delete_range has run, "done" until the region
\* manager has been notified.
DelIdle == [rs |-> <<>>, pc |-> "idle"]

\* The critical section of run(DeleteRegions(regions)): split the regions
\* into those to delay and those to delete.
DeleteDecide(rq, delayed) ==
    IF delete_run_panics(regions, rq)
    THEN /\ panicked' = TRUE
         /\ UNCHANGED delVars
    ELSE LET to_delay == SelectSeq(rq,
                LAMBDA r : must_delay(regions, ranges_being_written, r))
             to_delete == SelectSeq(rq,
                LAMBDA r : ~must_delay(regions, ranges_being_written, r))
         IN /\ delay_regions' = delayed \o to_delay
            /\ delPc' = IF to_delete = <<>> THEN DelIdle
                        ELSE [rs |-> to_delete, pc |-> "erase"]
            /\ UNCHANGED panicked

\* run(task) of the delete-range runner: DeleteRegions(regions) is split
\* and worked on, any other task is unreachable!().
DeleteRun ==
    /\ ~panicked
    /\ delPc.pc = "idle"
    /\ delQ # <<>>
    /\ delQ' = Tail(delQ)
    /\ IF Head(delQ).type = "DeleteRegions"
       THEN DeleteDecide(Head(delQ).regions, delay_regions)
       ELSE panicked' = TRUE /\ UNCHANGED delVars
    /\ UNCHANGED <<cfgVars, extVars, rmVars, snapVars, slVars, taskQ, gcVars, loadVars, envVars>>

\* on_timeout: the delayed regions are taken and run again.
DeleteOnTimeout ==
    /\ ~panicked
    /\ delPc.pc = "idle"
    /\ delay_regions # <<>>
    /\ DeleteDecide(delay_regions, <<>>)
    /\ UNCHANGED <<cfgVars, extVars, rmVars, snapVars, slVars, qVars, gcVars, loadVars, envVars>>

InAnyRange(k, rq) == \E i \in 1..Len(rq) : InRange(k, rq[i].rng)

\* delete_regions, first half: skiplist delete_range of every region, with
\* no lock of the region manager held.
DeleteErase ==
    /\ ~panicked
    /\ delPc.pc = "erase"
    /\ LET w == {e \in write_cf : ~InAnyRange(e.k, delPc.rs)}
           d == {e \in default_cf : ~InAnyRange(e.k, delPc.rs)}
           l == {e \in lock_cf : ~InAnyRange(e.k, delPc.rs)}
       IN /\ write_cf' = w
          /\ default_cf' = d
          /\ lock_cf' = l
          /\ used' = used - Released(write_cf, default_cf, lock_cf, w, d, l)
    /\ delPc' = [delPc EXCEPT !.pc = "done"]
    /\ UNCHANGED <<cfgVars, extVars, rmVars, snapVars, qVars, gcVars, loadVars, delay_regions,
                   envVars, panicked>>

\* on_delete_regions: the entries of the erased regions leave the manager.
on_delete_regions(rs, rq) ==
    [id \in RegionIds |->
        IF \E i \in 1..Len(rq) : rq[i].id = id THEN AbsentMeta ELSE rs[id]]

\* delete_regions, second half, under the write lock.
DeleteDone ==
    /\ ~panicked
    /\ delPc.pc = "done"
    /\ regions' = on_delete_regions(regions, delPc.rs)
    /\ delPc' = DelIdle
    /\ UNCHANGED <<cfgVars, extVars, is_gc_task_running, history, ranges_being_written, snapVars,
                   slVars, qVars, gcVars, loadVars, delay_regions, envVars,
                   panicked>>

\* ------------------------------------------------------------------------
\* Construction of the work manager, the tick thread and a write batch
\* ------------------------------------------------------------------------
\* TimeStamp::physical_now() when start_tick is called.
StartTime == 1

\* load_evict_interval, in the unit of gc_interval.
LoadEvictInterval == 2

\* WRITE_BATCH_LIMIT, WRITE_BATCH_MAX_BATCH and WRITE_BATCH_MAX_KEYS.
WRITE_BATCH_LIMIT == 16

WRITE_BATCH_MAX_BATCH == 16

WRITE_BATCH_MAX_KEYS == 256

\* RocksWriteBatch::new / write_batch(): one empty raw batch.
write_batch(enable_batch_vec) ==
    [wbs |-> <<<<>>>>, save_points |-> <<>>, index |-> 0, cur_batch_size |-> 0,
     batch_size_limit |-> WRITE_BATCH_LIMIT,
     enable_batch_vec |-> enable_batch_vec]

\* start_tick: the tick thread waits in select!; the first message of a
\* ticker is due one interval after its creation.
TickThread ==
    [pc |-> "select", gc_ticker |-> StartTime + GcInterval,
     load_evict_ticker |-> StartTime + LoadEvictInterval, tso_errors |-> 0]

\* BackgroundRunner::new and BgWorkManager::new.
InitRun ==
    /\ memory_checking = FALSE
    /\ last_seqno = 0
    /\ evictPool = <<>>
    /\ lockPool = <<>>

InitTick ==
    /\ clock = StartTime
    /\ pd_ok = TRUE
    /\ tick = TickThread
    /\ drop_pc = "alive"
    /\ worker_stopped = FALSE

\* The watch task of the hint service waits for label rules; asked and
\* requested record its calls of get_regions_in_range and load_region.
HintService ==
    [pc |-> "watch", data |-> <<>>, rules |-> <<>>, asked |-> <<>>,
     requested |-> <<>>]

InitHint == hint = HintService

InitExt ==
    /\ InitRun
    /\ InitTick
    /\ InitHint
    /\ wb = write_batch(TRUE)
    /\ other = write_batch(TRUE)

\* ------------------------------------------------------------------------
\* The GC specification: a cached region, readers, evictions, a split
\* ------------------------------------------------------------------------
GcRegions == {Region(1, 0, 0, 2)}

\* The cached data: versions of keys 0 and 1, all written at sequence 1.
GcWrite ==
    {WEntry(0, 2, 1, "Value", "Put", 2, FALSE),
     WEntry(0, 1, 1, "Value", "Put", 1, FALSE),
     WEntry(1, 2, 1, "Value", "Delete", 2, FALSE),
     WEntry(1, 1, 1, "Value", "Put", 1, TRUE)}

GcDefault == {DEntry(0, 2, 1), DEntry(0, 1, 1)}

InitCore ==
    /\ is_gc_task_running = FALSE
    /\ history = {}
    /\ ranges_being_written = {}
    /\ snapshots = {}
    /\ nextSid = 0
    /\ lock_cf = {}
    /\ taskQ = <<>>
    /\ delQ = <<>>
    /\ workerPc = "idle"
    /\ gcPool = <<>>
    /\ rocks_engine = RocksEngine(TRUE, 1)
    /\ loadPool = <<>>
    /\ delay_regions = <<>>
    /\ delPc = DelIdle
    /\ gcScheduled = 0
    /\ envOps = 0
    /\ loadOps = 0
    /\ hard_limit = HardLimit
    /\ panicked = FALSE

InitCommon == InitCore /\ InitExt

InitGc ==
    /\ InitCommon
    /\ regions = [id \in RegionIds |->
                    IF \E r \in GcRegions : r.id = id
                    THEN NewMeta(CHOOSE r \in GcRegions : r.id = id, "Active")
                    ELSE AbsentMeta]
    /\ write_cf = GcWrite
    /\ default_cf = GcDefault
    /\ used = LiveBytes(GcWrite, GcDefault, {})

GcSteps ==
    \/ GcRegionBegin
    \/ GcRegionFilter
    \/ GcRegionFinished
    \/ GcRegionDrop
    \/ GcPassFinish

DeleteSteps ==
    \/ DeleteRun
    \/ DeleteOnTimeout
    \/ DeleteErase
    \/ DeleteDone

NextGc ==
    \/ ScheduleGc
    \/ RunGc
    \/ RunGcNoRegions
    \/ GcSteps
    \/ AcquireSnapshot
    \/ ReleaseSnapshot
    \/ EvictRegion
    \/ Split
    \/ DeleteSteps

SpecGc == InitGc /\ [][NextGc]_vars

\* ------------------------------------------------------------------------
\* Properties of GC
\* ------------------------------------------------------------------------
\* C1: at most one GC pass is outstanding at any instant: once a Gc task has
\* set the guard and spawned its pass, no second pass is spawned before the
\* first has called on_gc_finished.
C1_SinglePass == Len(gcPool) <= 1

\* C2: snapshot protection: a step of gc_region (the filter or the removal of
\* its cached delete keys) leaves what every live snapshot reads, at its read
\* timestamp over its range, as it was.
C2_SnapshotProtection ==
    [][(GcRegionFilter \/ GcRegionDrop) =>
         \A sn \in snapshots :
            View(write_cf', default_cf', sn.rng, sn.ts)
              = View(write_cf, default_cf, sn.rng, sn.ts)]_vars

\* C4: safe-point monotonicity: the safe point of a region that stays Active
\* never decreases.
C4_SafePointMonotonic ==
    [][\A id \in RegionIds :
          (regions[id].state = "Active" /\ regions'[id].state = "Active")
             => regions'[id].safe_point >= regions[id].safe_point]_vars

\* A later pass carrying a lower safe point has gone past a region whose
\* safe point an earlier pass had raised.
C4_Witness ==
    /\ gcPool # <<>>
    /\ HeadPass.idx > 1
    /\ \E id \in RegionIds :
          /\ regions[id].state = "Active"
          /\ HeadPass.regions[1].id = id
          /\ ~regions[id].in_gc
          /\ regions[id].safe_point > HeadPass.safe_point

\* C7 as stated: every region whose in_gc flag is set is Active.
C7_InGcImpliesActive ==
    \A id \in RegionIds : regions[id].in_gc => regions[id].state = "Active"

\* C7: every region whose in_gc flag is set is Active or, when it was
\* evicted while gc_region was filtering it, Evicting.
C7_InGcImpliesActiveOrEvicting ==
    \A id \in RegionIds :
       regions[id].in_gc => regions[id].state \in {"Active", "Evicting"}

\* A region evicted in the middle of gc_region, waiting in the delay list of
\* the delete-range runner.
C7_Witness ==
    \E id \in RegionIds :
       /\ regions[id].in_gc
       /\ regions[id].state = "Evicting"
       /\ \E i \in 1..Len(delay_regions) : delay_regions[i].id = id

\* ------------------------------------------------------------------------
\* The load specification: an empty cache, load requests, evictions, writers
\* ------------------------------------------------------------------------
InitLoad ==
    /\ InitCommon
    /\ regions = [id \in RegionIds |-> AbsentMeta]
    /\ write_cf = {}
    /\ default_cf = {}
    /\ used = 0

LoadSteps ==
    \/ LoadStart
    \/ LoadCheck
    \/ LoadEntry
    \/ LoadGc
    \/ LoadFinish
    \/ LoadFailed

NextLoad ==
    \/ LoadRegionCall
    \/ PrepareForApply
    \/ RunLoad
    \/ LoadSteps
    \/ EvictRegion
    \/ WriterBegin
    \/ WriterEnd
    \/ DeleteSteps

SpecLoad == InitLoad /\ [][NextLoad]_vars

\* ------------------------------------------------------------------------
\* Properties of loading, eviction and deletion
\* ------------------------------------------------------------------------
\* C5: delete-range safety: while the runner is between its decision to
\* delete and the end of delete_range, no registered range being written
\* overlaps a region it is erasing.
C5_DeleteRangeSafety ==
    delPc.pc = "erase" =>
       \A i \in 1..Len(delPc.rs) :
          ~is_overlapped_with_regions_being_written(ranges_being_written,
                                                    delPc.rs[i].rng)

\* C6: any two distinct Active regions have non-overlapping key ranges.
C6_ActiveDisjoint ==
    \A a, b \in RegionIds :
       (a # b /\ regions[a].state = "Active" /\ regions[b].state = "Active")
          => ~Overlaps(regions[a].rng, regions[b].rng)

\* C8: memory-controller conservation: the bytes in use are the bytes of the
\* entries that are in the skiplist.
C8_Conservation == used = LiveBytes(write_cf, default_cf, lock_cf)

\* C10 as stated: a region that a cancelled load moved to Evicting carries
\* the reason of the evict_region call that cancelled the load.
C10_OriginalReason ==
    \A id \in RegionIds :
       (regions[id].state = "Evicting" /\ regions[id].asked # "None")
          => regions[id].reason = regions[id].asked

\* A load stopped at the hard limit has been erased again while the data
\* of another region stays cached.
C8_Witness ==
    /\ delPc.pc = "done"
    /\ used > 0
    /\ \E i \in 1..Len(delPc.rs) :
          /\ regions[delPc.rs[i].id].state = "Evicting"
          /\ regions[delPc.rs[i].id].reason = "LoadFailed"
          /\ regions[delPc.rs[i].id].asked = "None"

\* C10 (amended): a region that a cancelled load moved to Evicting carries
\* the reason the completion path gave, LoadFailed or LoadFailedWithoutStart,
\* whatever reason the cancelling evict_region call gave.
C10_CompletionReason ==
    \A id \in RegionIds :
       (regions[id].state = "Evicting" /\ regions[id].asked # "None")
          => regions[id].reason \in {"LoadFailed", "LoadFailedWithoutStart"}

\* The completion path has moved a cancelled load to Evicting.
C10_Witness ==
    \E id \in RegionIds :
       /\ regions[id].state = "Evicting"
       /\ regions[id].asked = "AutoEvict"
       /\ regions[id].reason = "LoadFailed"

\* ------------------------------------------------------------------------
\* The cancellation specification: loads, evictions of regions being loaded,
\* with the threads of the program scheduled fairly
\* ------------------------------------------------------------------------
NextCancel ==
    \/ LoadRegionCall
    \/ PrepareForApply
    \/ RunLoad
    \/ LoadSteps
    \/ EvictWhileLoading
    \/ WriterBegin
    \/ WriterEnd
    \/ DeleteSteps

\* The runner thread, the load pool thread and the delete-range runner (with
\* its 500 ms timer) keep running; an apply, once begun, ends.
FairCancel ==
    /\ WF_vars(RunLoad)
    /\ WF_vars(LoadSteps)
    /\ WF_vars(DeleteSteps)
    /\ WF_vars(WriterEnd)

SpecCancel == InitLoad /\ [][NextCancel]_vars /\ FairCancel

RangeEmpty(range) ==
    /\ ~\E e \in write_cf : InRange(e.k, range)
    /\ ~\E e \in default_cf : InRange(e.k, range)
    /\ ~\E e \in lock_cf : InRange(e.k, range)

InDeleteTask(t, id) == \E i \in 1..Len(t.regions) : t.regions[i].id = id

\* C9: load cancellation: a region in LoadingCanceled never becomes Active;
\* the step that takes it out of LoadingCanceled makes it Evicting and emits
\* a DeleteRegions task that contains it; and eventually no entry of its
\* range remains in the skiplist.
C9_LoadCancellation ==
    /\ [][\A id \in RegionIds :
            regions[id].state = "LoadingCanceled" =>
               \/ regions'[id].state = "LoadingCanceled"
               \/ /\ regions'[id].state = "Evicting"
                  /\ delQ' # <<>>
                  /\ Len(delQ') = Len(delQ) + 1
                  /\ InDeleteTask(delQ'[Len(delQ')], id)]_vars
    /\ \A r \in LoadCandidates :
          [](regions[r.id].state = "LoadingCanceled" => <>RangeEmpty(r.rng))

\* A cancelled load has run to its end and the region has been erased.
C9_Witness ==
    /\ delPc.pc = "done"
    /\ \E r \in LoadCandidates :
          /\ \E i \in 1..Len(delPc.rs) : delPc.rs[i].id = r.id
          /\ regions[r.id].state = "Evicting"
          /\ regions[r.id].asked # "None"
          /\ regions[r.id].reason = "LoadFailed"
          /\ RangeEmpty(r.rng)

\* ------------------------------------------------------------------------
\* The filter specification: one GC pass over a region whose columns hold
\* any small mix of versions, tombstones and payloads
\* ------------------------------------------------------------------------
\* Write records an entry of key 0 may carry.
Records ==
    {[wt |-> "Put", short |-> TRUE], [wt |-> "Put", short |-> FALSE],
     [wt |-> "Delete", short |-> FALSE], [wt |-> "Lock", short |-> FALSE],
     [wt |-> "Rollback", short |-> FALSE]}

FilterPool ==
    {WEntry(0, cts, seq, "Value", r.wt, cts, r.short) :
        cts \in 1..MaxTs, seq \in SeqNos, r \in Records}
    \cup {WEntry(0, cts, seq, "Deletion", "None", cts, FALSE) :
             cts \in 1..MaxTs, seq \in SeqNos}

\* Key 1 is either empty or holds one version.
NextKey == {{}, {WEntry(1, 1, 1, "Value", "Put", 1, TRUE)}}

\* Payloads the default column may hold for the Puts without short value.
PayloadPool(w) ==
    {DEntry(e.k, e.sts, seq) :
        e \in {x \in w : x.vt = "Value" /\ x.wt = "Put" /\ ~x.short},
        seq \in SeqNos}

\* An internal key (user key, sequence number) names one entry.
UniqueKeys(w) ==
    \A x, y \in w : (x.k = y.k /\ x.cts = y.cts /\ x.seq = y.seq) => x = y

InitFilter ==
    /\ history = {}
    /\ ranges_being_written = {}
    /\ snapshots = {}
    /\ nextSid = 0
    /\ lock_cf = {}
    /\ taskQ = <<>>
    /\ delQ = <<>>
    /\ workerPc = "idle"
    /\ loadPool = <<>>
    /\ delay_regions = <<>>
    /\ delPc = DelIdle
    /\ gcScheduled = 1
    /\ envOps = 0
    /\ loadOps = 0
    /\ hard_limit = HardLimit
    /\ InitExt
    /\ panicked = FALSE
    /\ regions = [id \in RegionIds |->
                    IF \E r \in GcRegions : r.id = id
                    THEN NewMeta(CHOOSE r \in GcRegions : r.id = id, "Active")
                    ELSE AbsentMeta]
    /\ \E a \in FilterPool, b \in FilterPool, c \in FilterPool, n \in NextKey :
          /\ write_cf = {a, b, c} \cup n
          /\ UniqueKeys(write_cf)
    /\ default_cf \in SUBSET PayloadPool(write_cf)
    /\ used = LiveBytes(write_cf, default_cf, {})
    /\ rocks_engine \in {RocksEngine(TRUE, seq) : seq \in SeqNos}
    /\ is_gc_task_running = TRUE
    /\ \E sp \in 1..MaxTs :
          gcPool = <<GcPass(RegionsById(GcRegions), sp, rocks_engine.seq)>>

SpecFilter == InitFilter /\ [][GcSteps]_vars

\* C3: sequence-number protection: no step of a filter pass removes, from
\* the write or the default column, an entry whose sequence number is greater
\* than the oldest_seqno of the pass.
C3_SeqnoProtection ==
    [][(GcRegionFilter \/ GcRegionDrop) =>
         \A e \in (write_cf \ write_cf') \cup (default_cf \ default_cf') :
            e.seq <= HeadPass.seqno]_vars

\* ------------------------------------------------------------------------
\* The limit specification: the cancellation specification with a change
\* of the hard limit threshold
\* ------------------------------------------------------------------------
NextLimit ==
    \/ NextCancel
    \/ RaiseHardLimit

SpecLimit == InitLoad /\ [][NextLimit]_vars /\ FairCancel

\* The load at the head of the load pool has been stopped by
\* HardLimitReached and has not yet reported.
LoadStopped == loadPool # <<>> /\ HeadLoad.pc = "failed"

\* C11: hard limit during load: the step on which acquire returns
\* HardLimitReached inserts nothing; from then on no entry is inserted for
\* the region and the region does not become Active; the report of the load
\* moves the region to Evicting with reason LoadFailed and emits a
\* DeleteRegions task that contains it; eventually no entry of its range
\* remains in the skiplist and the region is unknown to the region manager
\* again; and once the hard limit is raised no load is stopped by it.
C11_HardLimitDuringLoad ==
    /\ [][(~LoadStopped /\ LoadStopped')
            => UNCHANGED <<write_cf, default_cf, lock_cf, used>>]_vars
    /\ [][LoadStopped =>
            LET id == HeadLoad.region.id
            IN /\ write_cf' \subseteq write_cf
               /\ default_cf' \subseteq default_cf
               /\ lock_cf' \subseteq lock_cf
               /\ regions'[id].state # "Active"
               /\ \/ /\ loadPool' # <<>>
                     /\ Head(loadPool') = HeadLoad
                     /\ regions'[id].state \in {"Loading", "LoadingCanceled"}
                  \/ /\ loadPool' = Tail(loadPool)
                     /\ regions'[id].state = "Evicting"
                     /\ regions'[id].reason = "LoadFailed"
                     /\ Len(delQ') = Len(delQ) + 1
                     /\ InDeleteTask(delQ'[Len(delQ')], id)]_vars
    /\ \A r \in LoadCandidates :
          []((LoadStopped /\ HeadLoad.region.id = r.id)
                => /\ <>RangeEmpty(r.rng)
                   /\ <>(regions[r.id].state = "Absent"))
    /\ [][(hard_limit > HardLimit /\ ~LoadStopped) => ~LoadStopped']_vars

\* A load that nobody cancelled was stopped at the hard limit: its region is
\* Evicting with reason LoadFailed, the DeleteRegions task is queued and the
\* entries inserted before the stop are still in the skiplist.
C11_Witness ==
    /\ delQ # <<>>
    /\ \E r \in LoadCandidates :
          /\ InDeleteTask(delQ[Len(delQ)], r.id)
          /\ regions[r.id].state = "Evicting"
          /\ regions[r.id].reason = "LoadFailed"
          /\ regions[r.id].asked = "None"
          /\ \E e \in write_cf \cup default_cf \cup lock_cf :
                InRange(e.k, r.rng) /\ e.seq = DiskSeq(r)

\* ------------------------------------------------------------------------
\* The split specification: a cache that already holds an Active region,
\* load requests, evictions, writers, and a split of a region being loaded
\* ------------------------------------------------------------------------
\* The region that is cached at the start, next to the ranges of the load
\* requests, and the versions written to it.
WarmRegion == Region(2, 0, 2, 3)

WarmWrite ==
    {WEntry(2, cts, seq, "Value", "Put", cts, TRUE) : cts \in SeqNos, seq \in SeqNos}

InitWarm ==
    /\ InitCommon
    /\ regions = [id \in RegionIds |->
                    IF id = WarmRegion.id THEN NewMeta(WarmRegion, "Active")
                    ELSE AbsentMeta]
    /\ write_cf \in {{}, WarmWrite}
    /\ default_cf = {}
    /\ used = LiveBytes(write_cf, default_cf, {})

NextSplit ==
    \/ NextLoad
    \/ Split

SpecSplit == InitWarm /\ [][NextSplit]_vars

\* The load at the head of the load pool is about to look at the soft limit
\* and the memory controller reports that it is reached.
AtSoftLimit ==
    /\ loadPool # <<>>
    /\ HeadLoad.pc = "check"
    /\ reached_soft_limit(used)

\* The regions a report of the load at the head of the pool is about: its
\* region, or every known region overlapping its range when the epoch
\* version of the region-id entry differs from the task's.
Affected ==
    IF regions[HeadLoad.region.id].ver = HeadLoad.region.ver
    THEN {HeadLoad.region.id}
    ELSE {id \in RegionIds : /\ regions[id].state # "Absent"
                             /\ Overlaps(regions[id].rng, HeadLoad.region.rng)}

AtFinish == loadPool # <<>> /\ HeadLoad.pc = "finish"

\* C13: load completion: no assertion of on_snapshot_load_finished fails; it
\* moves every affected region in Loading to Active with the safe point of
\* the load (0 or the one computed from the timestamp), moves every affected
\* region in LoadingCanceled to Evicting with LoadFailed and puts them all in
\* one DeleteRegions task, leaves every other region alone, and returns true
\* exactly when no affected region was cancelled; on epoch-version mismatch
\* the affected regions are all regions overlapping the loaded range.
C13_LoadCompletion ==
    /\ [](AtFinish =>
            /\ ~load_handler_panics(regions, HeadLoad.region)
            /\ HeadLoad.safe_point \in {0} \cup {load_safe_point(now) : now \in PdNow}
            /\ load_finished_returns(regions, HeadLoad.region)
                  <=> ~\E id \in Affected : regions[id].state = "LoadingCanceled")
    /\ [][AtFinish =>
            LET canceled == {id \in Affected : regions[id].state = "LoadingCanceled"}
            IN \/ loadPool' # <<>> /\ Head(loadPool') = HeadLoad
               \/ /\ loadPool' = Tail(loadPool)
                  /\ \A id \in Affected :
                        /\ regions[id].state = "Loading" =>
                              /\ regions'[id].state = "Active"
                              /\ regions'[id].safe_point = HeadLoad.safe_point
                        /\ regions[id].state = "LoadingCanceled" =>
                              /\ regions'[id].state = "Evicting"
                              /\ regions'[id].reason = "LoadFailed"
                              /\ InDeleteTask(delQ'[Len(delQ')], id)
                  /\ \A id \in RegionIds \ Affected : regions'[id] = regions[id]
                  /\ IF canceled = {} THEN delQ' = delQ
                     ELSE /\ Len(delQ') = Len(delQ) + 1
                          /\ Len(delQ'[Len(delQ')].regions) = Cardinality(canceled)]_vars

\* ------------------------------------------------------------------------
\* The round-trip specification: a cache that already holds an Active
\* region, load requests, writers, and evictions of regions that are cached
\* ------------------------------------------------------------------------
\* evict_region of a region whose load has completed.
EvictActive == EvictRegionIn({"Active"})

NextRound ==
    \/ LoadRegionCall
    \/ PrepareForApply
    \/ RunLoad
    \/ LoadSteps
    \/ EvictActive
    \/ WriterBegin
    \/ WriterEnd
    \/ DeleteSteps

SpecRound == InitWarm /\ [][NextRound]_vars

\* What the skiplist holds inside a range, column by column.
RangeContent(range) ==
    [w |-> {e \in write_cf : InRange(e.k, range)},
     d |-> {e \in default_cf : InRange(e.k, range)},
     l |-> {e \in lock_cf : InRange(e.k, range)}]

\* The rows of a column of the disk snapshot of a region, as values at the
\* sequence number of the snapshot.
LoadedColumn(r, cf) ==
    LET rows == {e \in SeqToSet(Disk) : e.cf = cf /\ InRange(e.k, r.rng)}
    IN IF cf = "write"
       THEN {WEntry(e.k, e.cts, DiskSeq(r), "Value", e.wt, e.sts, e.short) :
                e \in rows}
       ELSE IF cf = "default" THEN {DEntry(e.k, e.sts, DiskSeq(r)) : e \in rows}
       ELSE {LEntry(e.k, DiskSeq(r)) : e \in rows}

\* What one load of a region into an empty range leaves there: the disk
\* snapshot, unfiltered when the timestamp fetch fails and otherwise filtered
\* at the safe point of the load.
SingleLoad(r) ==
    {[w |-> LoadedColumn(r, "write"), d |-> LoadedColumn(r, "default"),
      l |-> LoadedColumn(r, "lock")]}
    \cup {LET res == filter_keys_in_range(FilterNew(load_safe_point(now), U64Max),
                                          r.rng, LoadedColumn(r, "write"),
                                          LoadedColumn(r, "default"))
          IN [w |-> FilterDrop(res.f, res.w), d |-> res.d,
              l |-> LoadedColumn(r, "lock")] : now \in PdNow}

\* The only request of the environment so far was an eviction of the region,
\* which is cached again: no split, no other eviction, and the region cached
\* at the start is untouched.
RoundTrip(r) ==
    /\ regions[r.id].state = "Active"
    /\ regions[r.id].ver = r.ver
    /\ regions[r.id].rng = r.rng
    /\ regions[WarmRegion.id].state = "Active"
    /\ regions[WarmRegion.id].rng = WarmRegion.rng
    /\ envOps = 1

\* C15: round trip: a region that is Active, whether loaded once or loaded,
\* evicted, erased and loaded again from the same disk snapshot, holds in its
\* range exactly what a single load leaves there.
C15_RoundTrip ==
    \A r \in LoadCandidates :
       (/\ regions[r.id].state = "Active"
        /\ regions[r.id].ver = r.ver
        /\ regions[r.id].rng = r.rng
        /\ regions[WarmRegion.id].state = "Active"
        /\ regions[WarmRegion.id].rng = WarmRegion.rng
        /\ envOps <= 1)
          => RangeContent(r.rng) \in SingleLoad(r)

\* The region was loaded, evicted while Active, erased and loaded again, and
\* its second load was filtered.
C15_Witness ==
    \E r \in LoadCandidates :
       /\ RoundTrip(r)
       /\ regions[r.id].safe_point > 0
       /\ loadPool = <<>>

\* ------------------------------------------------------------------------
\* The key specification: a Filter that is created, run over a range entry by
\* entry and dropped, and then run again with the same parameters
\* ------------------------------------------------------------------------
\* Passes a Filter makes over the same range.
FilterRuns == 2

\* A Filter at work: its parameters, the entries its iterator has still to
\* yield, its fields, the number of the pass, and the columns as they were
\* before the first pass.
FilterRun(safe_point, oldest_seqno, range, w, run, init_w, init_d) ==
    [safe_point |-> safe_point, seqno |-> oldest_seqno, range |-> range,
     pc |-> "filter_key",
     todo |-> SortedEntries({e \in w : InRange(e.k, range)}),
     flt |-> FilterNew(safe_point, oldest_seqno), run |-> run,
     init_w |-> init_w, init_d |-> init_d]

HeadRun == Head(gcPool)

\* One round of the loop of filter_keys_in_range: filter_key on the entry
\* under the iterator, then iter.next.
FilterKeyStep ==
    /\ gcPool # <<>>
    /\ HeadRun.pc = "filter_key"
    /\ HeadRun.todo # <<>>
    /\ LET p == HeadRun
           res == filter_key(p.flt, Head(p.todo), write_cf, default_cf)
       IN /\ write_cf' = res.w
          /\ default_cf' = res.d
          /\ used' = used - Released(write_cf, default_cf, {}, res.w, res.d, {})
          /\ gcPool' = [gcPool EXCEPT ![1] = [p EXCEPT !.flt = res.f,
                                                       !.todo = Tail(@)]]
    /\ UNCHANGED <<cfgVars, extVars, rmVars, snapVars, lock_cf, qVars, workerPc,
                   rocks_engine, loadVars, delVars, envVars, panicked>>

\* Drop for Filter, first half: the cached MVCC delete key is removed.
FilterDropMvcc ==
    /\ gcPool # <<>>
    /\ HeadRun.pc = "filter_key"
    /\ HeadRun.todo = <<>>
    /\ LET p == HeadRun
           w == write_cf \ p.flt.cached_mvcc_delete_key
       IN /\ write_cf' = w
          /\ used' = used - Released(write_cf, default_cf, {}, w, default_cf, {})
          /\ gcPool' = [gcPool EXCEPT ![1] =
                          [p EXCEPT !.pc = "drop",
                                    !.flt.cached_mvcc_delete_key = {}]]
    /\ UNCHANGED <<cfgVars, extVars, rmVars, snapVars, default_cf, lock_cf, qVars,
                   workerPc, rocks_engine, loadVars, delVars, envVars, panicked>>

\* Drop for Filter, second half: the cached skiplist delete key is removed.
FilterDropSkiplist ==
    /\ gcPool # <<>>
    /\ HeadRun.pc = "drop"
    /\ LET p == HeadRun
           w == write_cf \ p.flt.cached_skiplist_delete_key
       IN /\ write_cf' = w
          /\ used' = used - Released(write_cf, default_cf, {}, w, default_cf, {})
          /\ gcPool' = [gcPool EXCEPT ![1] =
                          [p EXCEPT !.pc = "done",
                                    !.flt.cached_skiplist_delete_key = {}]]
    /\ UNCHANGED <<cfgVars, extVars, rmVars, snapVars, default_cf, lock_cf, qVars,
                   workerPc, rocks_engine, loadVars, delVars, envVars, panicked>>

\* A new Filter with the same safe point, sequence number and range.
FilterAgain ==
    /\ gcPool # <<>>
    /\ HeadRun.pc = "done"
    /\ HeadRun.run < FilterRuns
    /\ gcPool' = [gcPool EXCEPT ![1] =
                    FilterRun(HeadRun.safe_point, HeadRun.seqno, HeadRun.range,
                              write_cf, HeadRun.run + 1, HeadRun.init_w,
                              HeadRun.init_d)]
    /\ UNCHANGED <<cfgVars, extVars, rmVars, snapVars, slVars, qVars, workerPc,
                   rocks_engine, loadVars, delVars, envVars, panicked>>

\* The range the Filter is run over.
FilterRange == Rng(0, 2)

\* The columns hold any three entries of key 0, possibly a version of key
\* 1, and any payloads of their Puts without short value; nothing else of
\* the engine is at work.
InitKeys ==
    /\ is_gc_task_running = FALSE
    /\ history = {}
    /\ ranges_being_written = {}
    /\ snapshots = {}
    /\ nextSid = 0
    /\ lock_cf = {}
    /\ taskQ = <<>>
    /\ delQ = <<>>
    /\ workerPc = "idle"
    /\ loadPool = <<>>
    /\ delay_regions = <<>>
    /\ delPc = DelIdle
    /\ gcScheduled = 0
    /\ envOps = 0
    /\ loadOps = 0
    /\ hard_limit = HardLimit
    /\ InitExt
    /\ panicked = FALSE
    /\ regions = [id \in RegionIds |->
                    IF \E r \in GcRegions : r.id = id
                    THEN NewMeta(CHOOSE r \in GcRegions : r.id = id, "Active")
                    ELSE AbsentMeta]
    /\ \E a \in FilterPool, b \in FilterPool, c \in FilterPool, n \in NextKey :
          /\ write_cf = {a, b, c} \cup n
          /\ UniqueKeys(write_cf)
    /\ default_cf \in SUBSET PayloadPool(write_cf)
    /\ used = LiveBytes(write_cf, default_cf, {})
    /\ rocks_engine \in {RocksEngine(TRUE, seq) : seq \in SeqNos}
    /\ \E sp \in 1..MaxTs :
          gcPool = <<FilterRun(sp, rocks_engine.seq, FilterRange, write_cf, 1,
                               write_cf, default_cf)>>

NextKeys ==
    \/ FilterKeyStep
    \/ FilterDropMvcc
    \/ FilterDropSkiplist
    \/ FilterAgain

SpecKeys == InitKeys /\ [][NextKeys]_vars

\* C14: filter idempotence: a Filter run again with the same safe point,
\* sequence number and range after a completed pass removes no entry: no
\* step of the later pass changes the write column or the default column.
C14_FilterIdempotence ==
    [][(gcPool # <<>> /\ HeadRun.run > 1)
          => (write_cf' = write_cf /\ default_cf' = default_cf)]_vars

\* The second pass has come to its end after a first pass that removed
\* entries from both columns.
C14_Witness ==
    /\ gcPool # <<>>
    /\ HeadRun.run > 1
    /\ HeadRun.pc = "done"
    /\ write_cf # {}
    /\ write_cf # HeadRun.init_w
    /\ default_cf # HeadRun.init_d

\* ------------------------------------------------------------------------
\* Properties of a Filter pass
\* ------------------------------------------------------------------------
\* A pass has come to its end and the Filter is dropped.
PassDone == gcPool # <<>> /\ HeadRun.pc = "done"

\* An entry the Filter looks at: not above oldest_seqno, not above the safe
\* point.
Eligible(e) == e.seq <= HeadRun.seqno /\ e.cts <= HeadRun.safe_point

\* The copies of a user key (prefix and commit timestamp) before the pass.
Copies(k, cts) == {e \in HeadRun.init_w : e.k = k /\ e.cts = cts}

\* The write records of a prefix before the pass: for each user key with an
\* eligible copy the eligible copy of the highest sequence number, unless it
\* is a skiplist tombstone.
WriteRecords(k) ==
    {e \in HeadRun.init_w :
        /\ e.k = k
        /\ Eligible(e)
        /\ e.vt = "Value"
        /\ \A x \in Copies(k, e.cts) : Eligible(x) => x.seq <= e.seq}

\* The versions among them: Rollback and Lock records are not counted.
Versions(k) == {e \in WriteRecords(k) : e.wt \in {"Put", "Delete"}}

\* The newest version of a prefix, as a set with at most one element.
Newest(k) == {e \in Versions(k) : \A x \in Versions(k) : x.cts <= e.cts}

\* C16 as stated: after a pass, for a prefix whose newest eligible write
\* record is a Put, exactly one internal entry of that Put is in the write
\* column, its highest-sequence eligible copy; every older eligible version
\* of the prefix is gone; entries above the safe point are untouched.
\* Entries of the Put are the Put entries of its user key.
C16_NewestPutSurvives ==
    PassDone =>
       /\ \A k \in Keys : \A n \in Newest(k) :
             n.wt = "Put" =>
                /\ {e \in write_cf : e.k = k /\ e.cts = n.cts /\ e.wt = "Put"} = {n}
                /\ \A e \in HeadRun.init_w :
                      (e.k = k /\ Eligible(e) /\ e.cts < n.cts) => e \notin write_cf
       /\ \A e \in HeadRun.init_w :
             e.cts > HeadRun.safe_point => e \in write_cf

\* C16 (amended): as stated, with "exactly one eligible internal entry":
\* the eligible copy of the highest sequence number stays, and so does every
\* copy of that user key above oldest_seqno.
C16_NewestPutSurvivesEligible ==
    PassDone =>
       /\ \A k \in Keys : \A n \in Newest(k) :
             n.wt = "Put" =>
                /\ {e \in write_cf : e.k = k /\ e.cts = n.cts /\ Eligible(e)} = {n}
                /\ \A e \in Copies(k, n.cts) : e.seq > HeadRun.seqno => e \in write_cf
                /\ \A e \in HeadRun.init_w :
                      (e.k = k /\ Eligible(e) /\ e.cts < n.cts) => e \notin write_cf
       /\ \A e \in HeadRun.init_w :
             e.cts > HeadRun.safe_point => e \in write_cf

\* A pass kept the newest Put of key 0 and removed a lower copy of it and
\* an older version.
C16_Witness ==
    /\ PassDone
    /\ \E n \in Newest(0) :
          /\ n.wt = "Put"
          /\ n \in write_cf
          /\ \E x \in Copies(0, n.cts) : x # n /\ Eligible(x) /\ x \notin write_cf
          /\ \E e \in HeadRun.init_w :
                e.k = 0 /\ Eligible(e) /\ e.cts < n.cts /\ e \notin write_cf

\* The versions of a prefix that are older than a record: the values at a
\* lower commit timestamp.
OlderVersions(w, n) == {e \in w : e.k = n.k /\ e.vt = "Value" /\ e.cts < n.cts}

NewerMarks(k) ==
    {r \in WriteRecords(k) :
        /\ r.wt \in {"Rollback", "Lock"}
        /\ \E n \in Newest(k) : r.cts > n.cts}

\* C18: after a pass, every eligible Rollback or Lock record that is newer
\* than the first Put or Delete of its prefix is gone, and when that first
\* version is a Put it is still in the write column.
C18_RollbackLockRemoved ==
    PassDone =>
       \A k \in Keys : \A r \in NewerMarks(k) :
          /\ r \notin write_cf
          /\ \A n \in Newest(k) : n.wt = "Put" => n \in write_cf

\* A pass removed a Rollback record above the newest Put of key 0, and a
\* lower copy of that Put, and kept the Put.
C18_Witness ==
    /\ PassDone
    /\ \E r \in NewerMarks(0) : r.wt = "Rollback" /\ r \notin write_cf
    /\ \E n \in Newest(0) :
          /\ n.wt = "Put" /\ n \in write_cf
          /\ \E x \in Copies(0, n.cts) : Eligible(x) /\ x \notin write_cf

\* The default-column entries of a write record before the pass: same
\* prefix, start_ts of the record.
Payloads(r) == {x \in HeadRun.init_d : x.k = r.k /\ x.sts = r.sts}

\* The Put records without short value of a prefix.
LargePuts(k) == {r \in WriteRecords(k) : r.wt = "Put" /\ ~r.short}

MaxSeq == 3

\* Internal entries of key 0: a Put with short value or a skiplist
\* tombstone, at any commit timestamp and sequence number.
TombPool ==
    {WEntry(0, cts, seq, "Value", "Put", cts, TRUE) :
        cts \in 1..MaxTs, seq \in 1..MaxSeq}
    \cup {WEntry(0, cts, seq, "Deletion", "None", cts, FALSE) :
             cts \in 1..MaxTs, seq \in 1..MaxSeq}

InitTomb ==
    /\ is_gc_task_running = FALSE
    /\ history = {}
    /\ ranges_being_written = {}
    /\ snapshots = {}
    /\ nextSid = 0
    /\ lock_cf = {}
    /\ taskQ = <<>>
    /\ delQ = <<>>
    /\ workerPc = "idle"
    /\ loadPool = <<>>
    /\ delay_regions = <<>>
    /\ delPc = DelIdle
    /\ gcScheduled = 0
    /\ envOps = 0
    /\ loadOps = 0
    /\ hard_limit = HardLimit
    /\ InitExt
    /\ panicked = FALSE
    /\ regions = [id \in RegionIds |->
                    IF \E r \in GcRegions : r.id = id
                    THEN NewMeta(CHOOSE r \in GcRegions : r.id = id, "Active")
                    ELSE AbsentMeta]
    /\ \E a \in TombPool, b \in TombPool, c \in TombPool :
          /\ write_cf = {a, b, c}
          /\ UniqueKeys(write_cf)
    /\ default_cf = {}
    /\ used = LiveBytes(write_cf, default_cf, {})
    /\ rocks_engine \in {RocksEngine(TRUE, seq) : seq \in 1..MaxSeq}
    /\ \E sp \in 1..MaxTs :
          gcPool = <<FilterRun(sp, rocks_engine.seq, FilterRange, write_cf, 1,
                               write_cf, default_cf)>>

SpecTomb == InitTomb /\ [][NextKeys]_vars

\* The user keys whose newest eligible internal entry is a skiplist
\* tombstone, given by that tombstone.
TopTombstones ==
    {t \in HeadRun.init_w :
        /\ Eligible(t)
        /\ t.vt = "Deletion"
        /\ \A x \in Copies(t.k, t.cts) : Eligible(x) => x.seq <= t.seq}

\* The older internal entries of the user key of a tombstone.
Under(w, t) == {x \in w : x.k = t.k /\ x.cts = t.cts /\ x.seq < t.seq}

\* C20 as stated: a pass removes the newest eligible tombstone of a user key
\* and every older internal entry of that user key, and in no state of the
\* pass is the tombstone gone while an older entry of its user key is
\* present.
C20_TombstoneLast ==
    gcPool # <<>> =>
       \A t \in TopTombstones :
          /\ PassDone => t \notin write_cf /\ Under(write_cf, t) = {}
          /\ t \notin write_cf => Under(write_cf, t) = {}

\* C20 (amended): as stated, except that the newest tombstone may go while
\* an older tombstone of the same user key is still above every older value.
C20_TombstoneLastCovered ==
    gcPool # <<>> =>
       \A t \in TopTombstones :
          /\ PassDone => t \notin write_cf /\ Under(write_cf, t) = {}
          /\ t \notin write_cf =>
                \A x \in Under(write_cf, t) :
                   x.vt = "Value" =>
                      \E y \in Under(write_cf, t) :
                         y.vt = "Deletion" /\ y.seq > x.seq

\* The Filter has removed the newest tombstone of a user key on meeting a
\* second one, which it holds while a value of that user key lies under it.
C20_Witness ==
    /\ gcPool # <<>>
    /\ HeadRun.pc = "filter_key"
    /\ \E t \in TopTombstones :
          /\ t \notin write_cf
          /\ \E y, x \in Under(write_cf, t) :
                /\ y.vt = "Deletion" /\ x.vt = "Value" /\ y.seq > x.seq
                /\ HeadRun.flt.cached_skiplist_delete_key = {y}

\* ------------------------------------------------------------------------
\* Frame of gc_region
\* ------------------------------------------------------------------------
\* The key lies in the range of a region other than the one with this id.
InOtherRegion(k, id) ==
    \E o \in RegionIds \ {id} :
       regions[o].state # "Absent" /\ InRange(k, regions[o].rng)

\* C21: a step of gc_region(r, ...) (the filter or the removal of its cached
\* delete keys) removes no write-column or default-column entry whose key
\* lies in the range of a region other than r, regions created by a split
\* of r since the pass collected its regions included.
C21_GcFrame ==
    [][(GcRegionFilter \/ GcRegionDrop) =>
         LET id == HeadPass.regions[HeadPass.idx].id
         IN /\ \A e \in write_cf \ write_cf' : ~InOtherRegion(e.k, id)
            /\ \A e \in default_cf \ default_cf' : ~InOtherRegion(e.k, id)]_vars

\* ------------------------------------------------------------------------
\* Historical snapshots and gc_region
\* ------------------------------------------------------------------------
\* The historical records that overlap the current range of a region.
HistoryOver(id) == {x \in history : Overlaps(x.rng, regions[id].rng)}

\* C22: when gc_region installs a safe point on a live region, it is not
\* above the timestamp of any historical record overlapping the region's
\* range; and a step of gc_region on a live region leaves what the snapshot
\* of every such record at or above the Filter's safe point reads as it was.
C22_HistoryBlocksGc ==
    [][/\ GcRegionBegin =>
             LET id == HeadPass.regions[HeadPass.idx].id
             IN (regions'[id].in_gc /\ ~regions[id].in_gc) =>
                   \A x \in HistoryOver(id) : regions'[id].safe_point <= x.ts
       /\ (GcRegionFilter \/ GcRegionDrop) =>
             LET id == HeadPass.regions[HeadPass.idx].id
             IN regions[id].state = "Active" =>
                   \A x \in HistoryOver(id) : \A sn \in snapshots :
                      (sn.sid = x.sid /\ sn.ts >= HeadPass.flt.safe_point) =>
                         View(write_cf', default_cf', sn.rng, sn.ts)
                            = View(write_cf, default_cf, sn.rng, sn.ts)]_vars

\* gc_region has filtered a live region below the safe point of its task,
\* held back by the historical record of a snapshot that is still live.
C22_Witness ==
    /\ gcPool # <<>>
    /\ HeadPass.pc = "finished"
    /\ HeadPass.safe_point = 2
    /\ HeadPass.flt.safe_point = 1
    /\ HeadPass.regions[HeadPass.idx] = Region(1, 1, 0, 1)
    /\ regions[1].state = "Active"
    /\ regions[1].snaps = {}
    /\ \E x \in HistoryOver(1) :
          x.ts = 1 /\ \E sn \in snapshots : sn.sid = x.sid

\* ------------------------------------------------------------------------
\* BackgroundRunner::run, the tasks other than Gc and LoadRegion, and the
\* routing of tasks to the two runners
\* ------------------------------------------------------------------------
MemoryCheckAndEvict == [type |-> "MemoryCheckAndEvict"]
TopRegionsLoadEvict == [type |-> "TopRegionsLoadEvict"]
CleanLockTombstone(seqno) == [type |-> "CleanLockTombstone", seqno |-> seqno]
SetRocksEngine(engine) == [type |-> "SetRocksEngine", engine |-> engine]

\* Sequence numbers a CleanLockTombstone task may carry.
MaxSnapshotSeqno == 2

\* Tasks callers pass to schedule_task besides the DeleteRegions tasks of
\* evictions and snapshot drops and the LoadRegion tasks of load requests.
CallerTasks ==
    {MemoryCheckAndEvict, TopRegionsLoadEvict, SetRocksEngine(RocksEngine(TRUE, 1))}
       \cup {CleanLockTombstone(n) : n \in 0..MaxSnapshotSeqno}
       \cup {GcTask(sp) : sp \in 1..MaxTs}

\* A caller hands a task to schedule_task.  The memory check is
\* single-flighted: its caller sets memory_checking before scheduling.
ScheduleTask ==
    /\ ~panicked
    /\ envOps < MaxEnvOps
    /\ \E task \in CallerTasks :
         /\ task.type = "MemoryCheckAndEvict" => ~memory_checking
         /\ memory_checking' = (memory_checking \/ task.type = "MemoryCheckAndEvict")
         /\ LET q == schedule_task(taskQ, delQ, task)
            IN taskQ' = q.taskQ /\ delQ' = q.delQ
    /\ envOps' = envOps + 1
    /\ UNCHANGED <<cfgVars, rmVars, snapVars, slVars, gcVars, loadVars, delVars,
                   gcScheduled, loadOps, last_seqno, evictPool, lockPool, tickVars,
                   wbVars, hintVars, panicked>>

\* A runner that spawns the eviction whatever the usage.
load_evict_job_any_usage(task, mem_usage) ==
    IF task.type = "MemoryCheckAndEvict"
    THEN <<[job |-> "evict_on_soft_limit_reached"]>>
    ELSE IF task.type = "TopRegionsLoadEvict"
    THEN <<[job |-> "top_regions_load_evict"]>>
    ELSE <<>>

\* What run(task) spawns on load_evict_remote.
load_evict_job(task, mem_usage) ==
    IF task.type = "MemoryCheckAndEvict" /\ mem_usage > SoftLimit
    THEN <<[job |-> "evict_on_soft_limit_reached"]>>
    ELSE IF task.type = "TopRegionsLoadEvict"
    THEN <<[job |-> "top_regions_load_evict"]>>
    ELSE <<>>

\* A runner that never skips a CleanLockTombstone task.
clean_lock_skipped_never(snapshot_seqno, last) == FALSE

\* CleanLockTombstone(snapshot_seqno) returns at once when the sequence
\* number is below the last one seen.
clean_lock_skipped(snapshot_seqno, last) == snapshot_seqno < last

\* The runner thread takes a task that is neither Gc nor LoadRegion:
\* SetRocksEngine, MemoryCheckAndEvict, TopRegionsLoadEvict,
\* CleanLockTombstone, and DeleteRegions, which is unreachable!().
RunTask ==
    /\ ~panicked
    /\ workerPc = "idle"
    /\ taskQ # <<>>
    /\ Head(taskQ).type \notin {"Gc", "LoadRegion"}
    /\ taskQ' = Tail(taskQ)
    /\ LET task == Head(taskQ)
           stale == /\ task.type = "CleanLockTombstone"
                    /\ clean_lock_skipped(task.seqno, last_seqno)
       IN /\ rocks_engine' = IF task.type = "SetRocksEngine" THEN task.engine
                             ELSE rocks_engine
          /\ evictPool' = evictPool \o load_evict_job(task, used)
          /\ memory_checking' = IF task.type = "MemoryCheckAndEvict" /\ ~(used > SoftLimit)
                                THEN FALSE ELSE memory_checking
          /\ last_seqno' = IF task.type = "CleanLockTombstone" /\ ~stale
                           THEN task.seqno ELSE last_seqno
          /\ lockPool' = IF task.type = "CleanLockTombstone" /\ ~stale
                         THEN Append(lockPool, [seqno |-> task.seqno])
                         ELSE lockPool
          /\ panicked' = (task.type = "DeleteRegions")
    /\ UNCHANGED <<cfgVars, rmVars, snapVars, slVars, delQ, workerPc, gcPool, loadVars,
                   delVars, envVars, tickVars, wbVars, hintVars>>

\* The routing specification: an empty cache, load requests, evictions,
\* writers, callers of schedule_task, and both runners.
NextRoute ==
    \/ NextLoad
    \/ ScheduleTask
    \/ RunTask
    \/ RunGc
    \/ RunGcNoRegions
    \/ GcSteps

SpecRoute == InitLoad /\ [][NextRoute]_vars

RunnerKinds ==
    {"Gc", "LoadRegion", "MemoryCheckAndEvict", "TopRegionsLoadEvict",
     "CleanLockTombstone", "SetRocksEngine"}

\* C23: task routing: the queue of the delete-range runner holds DeleteRegions
\* tasks only, the queue of the background runner holds tasks of every other
\* kind only, and so no task either runner takes from its queue reaches the
\* unreachable!() branch of its run().
C23_Routing ==
    [][/\ \A i \in 1..Len(taskQ') : taskQ'[i].type \in RunnerKinds
       /\ \A i \in 1..Len(delQ') : delQ'[i].type = "DeleteRegions"
       /\ (taskQ # <<>> /\ taskQ' = Tail(taskQ)) => Head(taskQ).type \in RunnerKinds
       /\ (delQ # <<>> /\ delQ' = Tail(delQ)) => Head(delQ).type = "DeleteRegions"]_vars

\* The delete-range runner works on a region that an eviction passed to
\* schedule_task, and the background runner has dispatched a task a caller
\* passed to schedule_task.
C23_Witness ==
    /\ delPc.pc = "erase"
    /\ regions[delPc.rs[1].id].reason \in EvictReasons
    /\ lockPool # <<>>

\* ------------------------------------------------------------------------
\* BgWorkManager: the tick thread of start_tick, and Drop
\* ------------------------------------------------------------------------
\* Physical time stops here.
MaxClock == 5

\* Time passes.
Tock ==
    /\ clock < MaxClock
    /\ clock' = clock + 1
    /\ UNCHANGED <<cfgVars, rmVars, snapVars, slVars, qVars, gcVars, loadVars, delVars,
                   envVars, runVars, pd_ok, tick, drop_pc, worker_stopped, wbVars, hintVars, panicked>>

\* The placement service stops or starts answering get_tso.
PdChange ==
    /\ pd_ok' = ~pd_ok
    /\ UNCHANGED <<cfgVars, rmVars, snapVars, slVars, qVars, gcVars, loadVars, delVars,
                   envVars, runVars, clock, tick, drop_pc, worker_stopped, wbVars, hintVars, panicked>>

\* The arms of select! that are ready: a ticker delivers once its delivery
\* time has come, the stop channel once Drop is blocked in send.
select_ready(t, now, stopper) ==
    {a \in {"gc_ticker", "load_evict_ticker", "rx"} :
        \/ a = "gc_ticker" /\ now >= t.gc_ticker
        \/ a = "load_evict_ticker" /\ now >= t.load_evict_ticker
        \/ a = "rx" /\ stopper = "send"}

\* recv(gc_ticker): the ticker is re-armed one interval after the receipt and
\* the thread calls get_tso.
TickGc ==
    /\ ~panicked
    /\ tick.pc = "select"
    /\ "gc_ticker" \in select_ready(tick, clock, drop_pc)
    /\ tick' = [tick EXCEPT !.pc = "get_tso", !.gc_ticker = clock + GcInterval]
    /\ UNCHANGED <<cfgVars, rmVars, snapVars, slVars, qVars, gcVars, loadVars, delVars,
                   envVars, runVars, clock, pd_ok, drop_pc, worker_stopped, wbVars, hintVars, panicked>>

tick_safe_point_of_now(physical) == compose(physical, 0)

\* safe_point = compose(now.physical() - gc_interval, 0)
tick_safe_point(physical) == compose(physical - GcInterval, 0)

on_tso_error_retries(t) == [t EXCEPT !.tso_errors = t.tso_errors + 1]

\* The err arm of the match on get_tso: the error is logged, continue 'LOOP.
on_tso_error(t) == [t EXCEPT !.pc = "select", !.tso_errors = t.tso_errors + 1]

\* The 64-bit word of the safe point, scaled to 30 bits: the 18 logical bits
\* of a timestamp and 12 bits of physical time.
U64Wrap == 1073741824

\* a - b in a build without overflow checks.
wrapping_sub(a, b) == (a - b + U64Wrap) % U64Wrap

\* TimeStamp::compose within the word: the shift drops the upper bits.
compose_wrapping(physical, logical) ==
    ((physical % 4096) * 262144 + logical) % U64Wrap

\* The Ok arm of the match on get_tso: Gc is scheduled with the safe point
\* computed from the answer.  A subtraction below zero panics or wraps, as
\* the build decides.
TsoOk(now) ==
    IF now < GcInterval
    THEN \/ panicked' = TRUE /\ UNCHANGED <<taskQ, gcScheduled, tick>>
         \/ /\ taskQ' = Append(taskQ,
                           GcTask(compose_wrapping(wrapping_sub(now, GcInterval), 0)))
            /\ gcScheduled' = gcScheduled + 1
            /\ tick' = [tick EXCEPT !.pc = "select"]
            /\ UNCHANGED panicked
    ELSE /\ taskQ' = Append(taskQ, GcTask(tick_safe_point(now)))
         /\ gcScheduled' = gcScheduled + 1
         /\ tick' = [tick EXCEPT !.pc = "select"]
         /\ UNCHANGED panicked

\* block_on_timeout(get_tso) returns.  The placement service answers with
\* its physical time, or the call fails or times out.
TickGetTso ==
    /\ ~panicked
    /\ tick.pc = "get_tso"
    /\ IF ~pd_ok
       THEN /\ tick' = on_tso_error(tick)
            /\ UNCHANGED <<taskQ, gcScheduled, panicked>>
       ELSE TsoOk(clock)
    /\ UNCHANGED <<cfgVars, rmVars, snapVars, slVars, delQ, gcVars, loadVars, delVars,
                   envOps, loadOps, runVars, clock, pd_ok, drop_pc, worker_stopped, wbVars, hintVars>>

\* recv(load_evict_ticker): TopRegionsLoadEvict is scheduled.
TickLoadEvict ==
    /\ ~panicked
    /\ tick.pc = "select"
    /\ "load_evict_ticker" \in select_ready(tick, clock, drop_pc)
    /\ tick' = [tick EXCEPT !.load_evict_ticker = clock + LoadEvictInterval]
    /\ taskQ' = Append(taskQ, TopRegionsLoadEvict)
    /\ UNCHANGED <<cfgVars, rmVars, snapVars, slVars, delQ, gcVars, loadVars, delVars,
                   envVars, runVars, clock, pd_ok, drop_pc, worker_stopped, wbVars, hintVars, panicked>>

\* recv(rx): the thread is about to return.  The channel has capacity 0, so
\* the send of Drop completes at this step.
TickStop ==
    /\ ~panicked
    /\ tick.pc = "select"
    /\ "rx" \in select_ready(tick, clock, drop_pc)
    /\ tick' = [tick EXCEPT !.pc = "return"]
    /\ drop_pc' = "join"
    /\ UNCHANGED <<cfgVars, rmVars, snapVars, slVars, qVars, gcVars, loadVars, delVars,
                   envVars, runVars, clock, pd_ok, worker_stopped, wbVars, hintVars, panicked>>

\* return: the thread has exited.
TickExit ==
    /\ ~panicked
    /\ tick.pc = "return"
    /\ tick' = [tick EXCEPT !.pc = "exited"]
    /\ UNCHANGED <<cfgVars, rmVars, snapVars, slVars, qVars, gcVars, loadVars, delVars,
                   envVars, runVars, clock, pd_ok, drop_pc, worker_stopped, wbVars, hintVars, panicked>>

\* drop(): tx.send(true) is called and blocks.
DropSend ==
    /\ ~panicked
    /\ drop_pc = "alive"
    /\ drop_pc' = "send"
    /\ UNCHANGED <<cfgVars, rmVars, snapVars, slVars, qVars, gcVars, loadVars, delVars,
                   envVars, runVars, clock, pd_ok, tick, worker_stopped, wbVars, hintVars, panicked>>

join_returns_at_once(t) == TRUE

\* h.join() returns once the tick thread has returned.
join_returns(t) == t.pc = "exited"

\* drop(): h.join(), then self.worker.stop().
DropJoin ==
    /\ ~panicked
    /\ drop_pc = "join"
    /\ join_returns(tick)
    /\ drop_pc' = "stop"
    /\ UNCHANGED <<cfgVars, rmVars, snapVars, slVars, qVars, gcVars, loadVars, delVars,
                   envVars, runVars, clock, pd_ok, tick, worker_stopped, wbVars, hintVars, panicked>>

DropStop ==
    /\ ~panicked
    /\ drop_pc = "stop"
    /\ drop_pc' = "done"
    /\ worker_stopped' = TRUE
    /\ UNCHANGED <<cfgVars, rmVars, snapVars, slVars, qVars, gcVars, loadVars, delVars,
                   envVars, runVars, clock, pd_ok, tick, wbVars, hintVars, panicked>>

TickSteps ==
    \/ TickGc
    \/ TickGetTso
    \/ TickLoadEvict
    \/ TickStop
    \/ TickExit

DropSteps ==
    \/ DropSend
    \/ DropJoin
    \/ DropStop

\* The background runner while its worker has not been stopped.
RunnerSteps ==
    /\ ~worker_stopped
    /\ \/ RunGc
       \/ RunGcNoRegions
       \/ RunTask

\* The tick specification: an empty cache, the tick thread, the placement
\* service, the runner that takes the scheduled tasks, and Drop.
NextTick ==
    \/ Tock
    \/ PdChange
    \/ TickSteps
    \/ DropSteps
    \/ RunnerSteps

SpecTick == InitLoad /\ [][NextTick]_vars

\* The threads are scheduled: weak fairness of the tick thread, of Drop and
\* of the runner.  select! picks at random among the ready arms, so no arm
\* that is ready again and again is passed over forever: strong fairness of
\* the three arms.
SpecTickLive ==
    /\ SpecTick
    /\ WF_vars(TickGetTso) /\ WF_vars(TickExit)
    /\ SF_vars(TickGc) /\ SF_vars(TickLoadEvict) /\ SF_vars(TickStop)
    /\ WF_vars(DropJoin) /\ WF_vars(DropStop)
    /\ WF_vars(RunnerSteps)

\* C24: GC tick: a gc tick that is due leads to a scheduled Gc task unless the
\* placement service stops answering or the manager is dropped; every Gc
\* task the tick thread schedules carries compose(physical - gc_interval, 0)
\* for the physical time obtained at that tick; and the safe point of every
\* scheduled Gc task is not earlier than the start time and earlier than the
\* current time.
C24_GcTick ==
    /\ [][gcScheduled' # gcScheduled =>
            /\ tick.pc = "get_tso" /\ pd_ok
            /\ taskQ' = Append(taskQ, GcTask(compose(clock - GcInterval, 0)))]_vars
    /\ [](\A i \in 1..Len(taskQ) :
            taskQ[i].type = "Gc" =>
               /\ compose(StartTime, 0) <= taskQ[i].safe_point
               /\ taskQ[i].safe_point < compose(clock, 0))
    /\ \A n \in 0..MaxClock :
          (tick.pc = "select" /\ clock >= tick.gc_ticker /\ gcScheduled = n)
             ~> (gcScheduled > n \/ ~pd_ok \/ drop_pc # "alive")

\* A Gc task scheduled at a gc tick waits in the queue of the runner.
C24_Witness ==
    /\ gcScheduled > 0
    /\ tick.pc = "select"
    /\ \E i \in 1..Len(taskQ) :
          /\ taskQ[i].type = "Gc"
          /\ taskQ[i].safe_point = compose(clock - GcInterval, 0)

\* C25: timestamp failure at a gc tick: the step at which get_tso fails or
\* times out schedules nothing and leaves the thread at select! with both
\* tickers as they were; get_tso is called only on receipt of a gc tick, so
\* the failed tick is not tried again; and after a failure a gc tick that is
\* due still leads to a Gc task (unless the placement service fails again or
\* the manager is dropped) and a load-evict tick that is due still schedules
\* TopRegionsLoadEvict.
C25_TsoFailure ==
    /\ [][tick'.tso_errors # tick.tso_errors =>
            /\ UNCHANGED <<taskQ, gcScheduled>>
            /\ tick'.pc = "select"
            /\ tick'.gc_ticker = tick.gc_ticker
            /\ tick'.load_evict_ticker = tick.load_evict_ticker]_vars
    /\ [][(tick'.pc = "get_tso" /\ tick.pc # "get_tso") =>
            /\ clock >= tick.gc_ticker
            /\ tick'.gc_ticker = clock + GcInterval]_vars
    /\ [][tick'.load_evict_ticker # tick.load_evict_ticker =>
            taskQ' = Append(taskQ, TopRegionsLoadEvict)]_vars
    /\ \A n \in 0..MaxClock :
          (tick.tso_errors > 0 /\ tick.pc = "select" /\ clock >= tick.gc_ticker
             /\ gcScheduled = n)
             ~> (gcScheduled > n \/ ~pd_ok \/ drop_pc # "alive")
    /\ \A t \in StartTime..MaxClock :
          (tick.tso_errors > 0 /\ tick.pc = "select" /\ clock = t
             /\ clock >= tick.load_evict_ticker)
             ~> (tick.load_evict_ticker > t \/ drop_pc # "alive")

\* After a failed gc tick the thread has received the next gc tick and asks
\* the placement service, which answers.
C25_Witness ==
    /\ tick.tso_errors = 1
    /\ tick.pc = "get_tso"
    /\ pd_ok
    /\ gcScheduled = 0

DropOrder ==
    {<<"alive", "send">>, <<"send", "join">>, <<"join", "stop">>, <<"stop", "done">>}

\* C26: shutdown order and termination: Drop goes from the send of stop to
\* the join and from the join to worker.stop(), in that order; the send
\* completes only when the tick thread receives it and the join only when
\* the thread has exited, so the workers are stopped only after the thread
\* has exited; the thread leaves its loop only on receipt of stop and
\* schedules nothing from then on; and once Drop has begun, the thread
\* exits and the workers are stopped.
C26_Shutdown ==
    /\ [][drop_pc' # drop_pc => <<drop_pc, drop_pc'>> \in DropOrder]_vars
    /\ [][(drop_pc = "send" /\ drop_pc' = "join") =>
             tick.pc = "select" /\ tick'.pc = "return"]_vars
    /\ [][(tick'.pc = "return" /\ tick.pc # "return") => drop_pc = "send"]_vars
    /\ [](drop_pc \in {"stop", "done"} => tick.pc = "exited")
    /\ [](worker_stopped <=> drop_pc = "done")
    /\ [][tick.pc \in {"return", "exited"} =>
             /\ Len(taskQ') <= Len(taskQ)
             /\ gcScheduled' = gcScheduled
             /\ tick'.pc \in {"return", "exited"}]_vars
    /\ (drop_pc = "send") ~> (tick.pc = "exited")
    /\ (drop_pc = "send") ~> worker_stopped

\* The workers are stopped after the tick thread, which had scheduled a Gc
\* task and a TopRegionsLoadEvict task, has exited.
C26_Witness ==
    /\ worker_stopped
    /\ tick.pc = "exited"
    /\ gcScheduled > 0
    /\ tick.load_evict_ticker > StartTime + LoadEvictInterval

\* ------------------------------------------------------------------------
\* RocksWriteBatch (components/engine_rocks/src/write_batch.rs)
\* ------------------------------------------------------------------------
\* A raw batch is the sequence of the operations appended to it.
RECURSIVE SumLen(_)
SumLen(wbs) == IF wbs = <<>> THEN 0 ELSE Len(Head(wbs)) + SumLen(Tail(wbs))

\* Operations the raw batches of b hold.
Held(b) == SumLen(b.wbs)

check_switch_batch_never(b) == [b EXCEPT !.cur_batch_size = b.cur_batch_size + 1]

\* check_switch_batch.  Vec indices start at 0, sequence indices at 1.
check_switch_batch(b) ==
    IF b.enable_batch_vec /\ b.batch_size_limit > 0
          /\ b.cur_batch_size >= b.batch_size_limit
    THEN [b EXCEPT !.index = b.index + 1,
                   !.cur_batch_size = 1,
                   !.wbs = IF b.index + 1 >= Len(b.wbs) THEN Append(b.wbs, <<>>)
                           ELSE b.wbs]
    ELSE [b EXCEPT !.cur_batch_size = b.cur_batch_size + 1]

\* put, put_cf, delete, delete_cf, delete_range, delete_range_cf:
\* check_switch_batch, then the operation goes to wbs[index].
put(b, op) ==
    LET c == check_switch_batch(b)
    IN [c EXCEPT !.wbs[c.index + 1] = Append(c.wbs[c.index + 1], op)]

should_write_to_engine(b) == b.index >= WRITE_BATCH_MAX_BATCH

clear(b) ==
    [b EXCEPT !.wbs = [i \in 1..Len(b.wbs) |-> IF i <= b.index + 1 THEN <<>> ELSE b.wbs[i]],
              !.save_points = <<>>,
              !.index = 0,
              !.cur_batch_size = 0]

\* Operations a caller adds before it looks at should_write_to_engine.
MaxOps == WRITE_BATCH_MAX_KEYS + 2

\* The n-th operation a caller adds to a batch.
Op(who, n) == [by |-> who, n |-> n]

WbPut ==
    /\ Held(wb) < MaxOps
    /\ wb' = put(wb, Op("wb", Held(wb) + 1))
    /\ UNCHANGED <<cfgVars, rmVars, snapVars, slVars, qVars, gcVars, loadVars, delVars,
                   envVars, runVars, tickVars, hintVars, other, panicked>>

WbClear ==
    /\ Held(wb) > 0
    /\ wb' = clear(wb)
    /\ UNCHANGED <<cfgVars, rmVars, snapVars, slVars, qVars, gcVars, loadVars, delVars,
                   envVars, runVars, tickVars, hintVars, other, panicked>>

\* Everything but the write batches, as after construction, with an empty
\* cache.
InitRest ==
    /\ InitCore
    /\ InitRun
    /\ InitTick
    /\ InitHint
    /\ regions = [id \in RegionIds |-> AbsentMeta]
    /\ write_cf = {}
    /\ default_cf = {}
    /\ used = 0

\* write_batch() of an engine with or without multi-batch write.
InitBatch ==
    /\ InitRest
    /\ wb \in {write_batch(e) : e \in BOOLEAN}
    /\ other = write_batch(TRUE)

NextBatch ==
    \/ WbPut
    \/ WbClear

SpecBatch == InitBatch /\ [][NextBatch]_vars

\* C27: with multi-batch write enabled, should_write_to_engine() is true of
\* a write batch exactly when more than WRITE_BATCH_MAX_KEYS operations have
\* been added to it since its creation or last clear: false up to 256
\* operations, true from the 257th on, and false again after clear().
C27_ShouldWrite ==
    /\ [](wb.enable_batch_vec =>
             (should_write_to_engine(wb) <=> Held(wb) > WRITE_BATCH_MAX_KEYS))
    /\ [][(wb.enable_batch_vec /\ Held(wb') = 0) => ~should_write_to_engine(wb')]_vars

\* The 257th operation has been added to a batch with multi-batch write.
C27_Witness ==
    /\ wb.enable_batch_vec
    /\ Held(wb) = WRITE_BATCH_MAX_KEYS + 1
    /\ should_write_to_engine(wb)
    /\ wb.cur_batch_size = 1

\* ------------------------------------------------------------------------
\* RocksWriteBatch::merge
\* ------------------------------------------------------------------------
\* Operations a caller adds to either batch before a merge.
MaxMergeOps == 17

\* data appended to raw n times over.
RECURSIVE AppendTimes(_, _, _)
AppendTimes(raw, data, n) ==
    IF n = 0 THEN raw ELSE AppendTimes(raw \o data, data, n - 1)

\* merge: for i in 0..=other.index, wbs[index] takes the data of
\* other.wbs[other.index].
merge(b, o) ==
    [b EXCEPT !.wbs[b.index + 1] =
        AppendTimes(b.wbs[b.index + 1], o.wbs[o.index + 1], o.index + 1)]

MergePut ==
    /\ \/ /\ Held(wb) < MaxMergeOps
          /\ wb' = put(wb, Op("wb", Held(wb) + 1))
          /\ UNCHANGED other
       \/ /\ Held(other) < MaxMergeOps
          /\ other' = put(other, Op("other", Held(other) + 1))
          /\ UNCHANGED wb
    /\ UNCHANGED <<cfgVars, rmVars, snapVars, slVars, qVars, gcVars, loadVars, delVars,
                   envVars, runVars, tickVars, hintVars, panicked>>

\* The operations of the raw batches 0..=index of b, in order.
RECURSIVE Flat(_, _)
Flat(wbs, n) == IF n = 0 THEN <<>> ELSE Flat(wbs, n - 1) \o wbs[n]

Ops(b) == Flat(b.wbs, b.index + 1)

\* b holds operations that came from another batch.
Merged(b) == \E i \in 1..Len(Ops(b)) : Ops(b)[i].by # "wb"

\* wb.merge(other), once in a run: other is moved into the call; the caller
\* goes on with a new batch in its place.
Merge ==
    /\ ~Merged(wb)
    /\ Held(other) > 0
    /\ wb' = merge(wb, other)
    /\ other' = write_batch(other.enable_batch_vec)
    /\ UNCHANGED <<cfgVars, rmVars, snapVars, slVars, qVars, gcVars, loadVars, delVars,
                   envVars, runVars, tickVars, hintVars, panicked>>

InitMerge ==
    /\ InitRest
    /\ wb = write_batch(TRUE)
    /\ other = write_batch(TRUE)

NextMerge ==
    \/ MergePut
    \/ Merge

SpecMerge == InitMerge /\ [][NextMerge]_vars

\* C28: merge(other) appends the operations of other's sub-batches
\* 0..=other.index to self, each once and in order: after the merge self
\* holds its own operations followed by every operation of other once.
C28_MergeOnce ==
    [][(Held(other) > 0 /\ Held(other') = 0) => Ops(wb') = Ops(wb) \o Ops(other)]_vars

\* ------------------------------------------------------------------------
\* GC filter passes and the delete-range runner
\* ------------------------------------------------------------------------
\* The runner has decided to delete region id and has not finished the erase.
Erasing(id) ==
    /\ delPc.pc = "erase"
    /\ \E i \in 1..Len(delPc.rs) : delPc.rs[i].id = id

\* gc_region works on region id and its Filter still has entries to remove:
\* the scan has not run or on_gc_region_finished has not been called, or the
\* Filter holds a cached delete key that its Drop will remove.
FilterAlive(id) ==
    /\ gcPool # <<>>
    /\ HeadPass.idx <= Len(HeadPass.regions)
    /\ HeadPass.regions[HeadPass.idx].id = id
    /\ \/ HeadPass.pc \in {"filter", "finished"}
       \/ /\ HeadPass.pc = "drop"
          /\ HeadPass.flt.cached_mvcc_delete_key
                \cup HeadPass.flt.cached_skiplist_delete_key # {}

\* C29: a GC filter pass and a physical range erase never work on the same
\* region at the same time: no region the runner is erasing has its in_gc
\* flag set (the flag is clear when the runner decides and does not become
\* set afterwards), and no Filter of a pass on that region is still at work.
C29_GcEraseExclusive ==
    /\ \A i \in 1..Len(delPc.rs) :
          delPc.pc = "erase" => ~regions[delPc.rs[i].id].in_gc
    /\ \A id \in RegionIds : ~(Erasing(id) /\ FilterAlive(id))

\* ------------------------------------------------------------------------
\* The delay specification: the GC specification with writers, and with the
\* delete-range runner and its 500 ms timer running
\* ------------------------------------------------------------------------
NextDelay ==
    \/ NextGc
    \/ WriterBegin
    \/ WriterEnd

SpecDelay ==
    /\ InitGc
    /\ [][NextDelay]_vars
    /\ WF_vars(DeleteRun) /\ WF_vars(DeleteOnTimeout)
    /\ WF_vars(DeleteErase) /\ WF_vars(DeleteDone)

InSeq(r, rq) == \E i \in 1..Len(rq) : rq[i] = r

\* Region id waits in delay_regions.
Delayed(id) == \E i \in 1..Len(delay_regions) : delay_regions[i].id = id

\* Nothing makes the runner delay region id.
MayDelete(id) ==
    /\ ~regions[id].in_gc
    /\ ~is_overlapped_with_regions_being_written(ranges_being_written, regions[id].rng)

OnGcFinishedCall == RunGcNoRegions \/ GcPassFinish

\* C31: every call of on_gc_finished finds the regions-in-gc guard set, so
\* its assertion never fails; a Gc task that finds the guard already set
\* starts no pass and leaves the guard of the running pass set.
C31_GuardHeldAtFinish ==
    /\ [][OnGcFinishedCall => (is_gc_task_running /\ ~panicked')]_vars
    /\ [][(RunGc /\ rocks_engine.some /\ is_gc_task_running) =>
            (gcPool' = gcPool /\ workerPc' = "idle" /\ is_gc_task_running')]_vars
    /\ [][(RunGcNoRegions /\ gcPool # <<>>) => is_gc_task_running']_vars

\* ------------------------------------------------------------------------
\* MemoryCheckAndEvict: the memory check of the runner thread and
\* evict_on_soft_limit_reached on the load-evict pool
\* ------------------------------------------------------------------------
\* Approximate region sizes range-stats may report with a candidate.
ApproxSizes == {2, 5}

\* Longest candidate list range-stats hands out.
MaxCandidates == 2

\* collect_candidates_for_eviction: candidates in the priority order of
\* range-stats, each with its approximate size, restricted to the regions the
\* region manager contains.
contains_region(rs, id) == rs[id].state # "Absent"

Candidates(rs) ==
    LET Ids == {id \in RegionIds : contains_region(rs, id)}
    IN {c \in UNION {[1..n -> Ids \X ApproxSizes] : n \in 0..MaxCandidates} :
          \A i, j \in 1..Len(c) : c[i][1] = c[j][1] => i = j}

\* A loop that does not count what it evicted.
evict_remaining_not_counted(remaining, deleteable, approx_size) == remaining

\* The body of the eviction loop on the counter: the approximate size of a
\* candidate is taken off only when its eviction made something deleteable.
evict_remaining(remaining, deleteable, approx_size) ==
    IF deleteable # <<>> THEN saturating_sub(remaining, approx_size)
    ELSE remaining

\* evict_region(region, MemoryLimitReached): the region manager after the
\* call, the historical records, and the regions that are deleteable at once.
evict_region(rs, h, id, reason) ==
    LET m == rs[id]
        rs1 == [rs EXCEPT ![id] = evict_meta(m, reason)]
        h1 == IF m.state = "Active" THEN h \cup SnapsToHistory(m) ELSE h
    IN [regions |-> rs1,
        history |-> h1,
        deleteable |-> IF /\ m.state \in {"Pending", "ReadyToLoad", "Active"}
                          /\ Deleteable(rs1, h1, id)
                       THEN <<MetaRegion(id, rs1[id])>> ELSE <<>>]

\* The write path finds the soft limit reached, wins memory_checking and
\* schedules the check.
ScheduleMemoryCheck ==
    /\ ~panicked
    /\ ~memory_checking
    /\ memory_checking' = TRUE
    /\ LET q == schedule_task(taskQ, delQ, MemoryCheckAndEvict)
       IN taskQ' = q.taskQ /\ delQ' = q.delQ
    /\ UNCHANGED <<cfgVars, rmVars, snapVars, slVars, gcVars, loadVars, delVars,
                   envVars, last_seqno, evictPool, lockPool, tickVars, wbVars, hintVars,
                   panicked>>

HeadJob == Head(evictPool)

SetHeadJob(j) == <<j>> \o Tail(evictPool)

\* evict_on_soft_limit_reached starts: the excess over the soft limit is
\* read; when there is none the function returns, otherwise the candidates
\* are collected.
EvictSoftBegin ==
    /\ ~panicked
    /\ evictPool # <<>>
    /\ HeadJob.job = "evict_on_soft_limit_reached"
    /\ "pc" \notin DOMAIN HeadJob
    /\ LET remaining == saturating_sub(used, SoftLimit)
       IN \E c \in Candidates(regions) :
            /\ remaining = 0 => c = <<>>
            /\ evictPool' = SetHeadJob(
                  [job |-> "evict_on_soft_limit_reached",
                   pc |-> IF remaining = 0 THEN "return" ELSE "loop",
                   cands |-> c, idx |-> 1, remaining |-> remaining,
                   regions_to_delete |-> <<>>,
                   excess |-> remaining, evicted |-> <<>>])
    /\ UNCHANGED <<cfgVars, rmVars, snapVars, slVars, qVars, gcVars, loadVars, delVars,
                   envVars, memory_checking, last_seqno, lockPool, tickVars, wbVars, hintVars,
                   panicked>>

\* One turn of the loop, under the write lock of the engine.
EvictSoftStep ==
    /\ ~panicked
    /\ evictPool # <<>>
    /\ "pc" \in DOMAIN HeadJob
    /\ HeadJob.pc = "loop"
    /\ HeadJob.idx <= Len(HeadJob.cands)
    /\ HeadJob.remaining # 0
    /\ LET j == HeadJob
           id == j.cands[j.idx][1]
           approx_size == j.cands[j.idx][2]
           r == evict_region(regions, history, id, "MemoryLimitReached")
       IN /\ regions' = r.regions
          /\ history' = r.history
          /\ evictPool' = SetHeadJob(
                [j EXCEPT !.idx = @ + 1,
                          !.remaining = evict_remaining(@, r.deleteable, approx_size),
                          !.regions_to_delete = @ \o r.deleteable,
                          !.evicted = IF r.deleteable # <<>>
                                      THEN Append(@, approx_size) ELSE @])
    /\ UNCHANGED <<cfgVars, is_gc_task_running, ranges_being_written, snapVars, slVars,
                   qVars, gcVars, loadVars, delVars, envVars, memory_checking,
                   last_seqno, lockPool, tickVars, wbVars, hintVars, panicked>>

\* The loop is over: the regions to delete, if any, go out as one
\* DeleteRegions task, and the spawned task clears memory_checking.
EvictSoftEnd ==
    /\ ~panicked
    /\ evictPool # <<>>
    /\ "pc" \in DOMAIN HeadJob
    /\ \/ HeadJob.pc = "return"
       \/ HeadJob.idx > Len(HeadJob.cands)
       \/ HeadJob.remaining = 0
    /\ LET q == schedule_task(taskQ, delQ, DeleteRegionsTask(HeadJob.regions_to_delete))
       IN IF HeadJob.regions_to_delete # <<>>
          THEN taskQ' = q.taskQ /\ delQ' = q.delQ
          ELSE UNCHANGED qVars
    /\ memory_checking' = FALSE
    /\ evictPool' = Tail(evictPool)
    /\ UNCHANGED <<cfgVars, rmVars, snapVars, slVars, gcVars, loadVars, delVars,
                   envVars, last_seqno, lockPool, tickVars, wbVars, hintVars, panicked>>

\* The cache the memory check finds: two Active regions over three keys that
\* hold from three to five versions with short values.
EvictRegions == {Region(1, 0, 0, 1), Region(2, 0, 1, 3)}

EvictWrite ==
    {WEntry(k, cts, 1, "Value", "Put", cts, TRUE) : k \in {0, 1, 2}, cts \in {1, 2}}

InitEvict ==
    /\ InitCommon
    /\ regions = [id \in RegionIds |->
                    IF \E r \in EvictRegions : r.id = id
                    THEN NewMeta(CHOOSE r \in EvictRegions : r.id = id, "Active")
                    ELSE AbsentMeta]
    /\ write_cf \in {{e \in EvictWrite : e.cts = 1 \/ e.k < n} : n \in {0, 1, 2}}
    /\ default_cf = {}
    /\ used = LiveBytes(write_cf, default_cf, {})

EvictSoftSteps ==
    \/ EvictSoftBegin
    \/ EvictSoftStep
    \/ EvictSoftEnd

NextEvict ==
    \/ ScheduleMemoryCheck
    \/ RunTask
    \/ EvictSoftSteps
    \/ AcquireSnapshot
    \/ ReleaseSnapshot
    \/ DeleteRun
    \/ DeleteErase
    \/ DeleteDone

\* The runner thread, the load-evict pool and the delete-range runner keep
\* running.
SpecEvict ==
    /\ InitEvict
    /\ [][NextEvict]_vars
    /\ WF_vars(RunTask)
    /\ WF_vars(EvictSoftSteps)
    /\ WF_vars(DeleteRun) /\ WF_vars(DeleteErase) /\ WF_vars(DeleteDone)

\* The runner thread takes a MemoryCheckAndEvict task.
MemoryCheckTaken ==
    /\ taskQ # <<>>
    /\ Head(taskQ).type = "MemoryCheckAndEvict"
    /\ taskQ' = Tail(taskQ)

\* C32: the memory check spawns the eviction only when the usage is above
\* the soft limit and the eviction evicts only when it found an excess; at or
\* below the soft limit the runner clears memory_checking at once, otherwise
\* the spawned task clears it when the eviction is over; so memory_checking,
\* once set, is eventually clear again.
C32_MemoryCheck ==
    /\ [][MemoryCheckTaken =>
            IF used > SoftLimit
            THEN /\ evictPool' = Append(evictPool, [job |-> "evict_on_soft_limit_reached"])
                 /\ memory_checking' = memory_checking
            ELSE /\ evictPool' = evictPool
                 /\ ~memory_checking']_vars
    /\ [][EvictSoftStep => (used > SoftLimit \/ HeadJob.excess > 0)]_vars
    /\ [][(EvictSoftBegin /\ ~(used > SoftLimit)) => evictPool'[1].pc = "return"]_vars
    /\ [][Len(evictPool') < Len(evictPool) => (regions' = regions /\ ~memory_checking')]_vars
    /\ (memory_checking ~> ~memory_checking)

\* A memory check above the soft limit has evicted a region and cleared the
\* flag.
C32_Witness ==
    /\ ~memory_checking
    /\ evictPool = <<>>
    /\ taskQ = <<>>
    /\ \E id \in RegionIds : regions[id].reason = "MemoryLimitReached"

RECURSIVE SeqSum(_)
SeqSum(q) == IF q = <<>> THEN 0 ELSE Head(q) + SeqSum(Tail(q))

\* A turn of the loop evicts the next candidate of the list and no other
\* region, and keeps the region when evict_region reports it deleteable.
EvictsInOrder ==
    [][EvictSoftStep =>
         LET id == HeadJob.cands[HeadJob.idx][1]
             now == /\ regions[id].state # "Evicting"
                    /\ Deleteable(regions', history', id)
         IN /\ \A x \in RegionIds \ {id} : regions'[x] = regions[x]
            /\ regions[id].state \in {"Pending", "ReadyToLoad", "Active"}
                  => regions'[id].state = "Evicting"
            /\ evictPool'[1].idx = HeadJob.idx + 1
            /\ evictPool'[1].regions_to_delete =
                  HeadJob.regions_to_delete \o
                     (IF now THEN <<MetaRegion(id, regions'[id])>> ELSE <<>>)]_vars

\* At the end one DeleteRegions task goes out with the regions kept, and
\* none when none was kept.
EmitsOneTask ==
    [][EvictSoftEnd =>
         /\ taskQ' = taskQ
         /\ delQ' = IF HeadJob.regions_to_delete = <<>> THEN delQ
                    ELSE Append(delQ, DeleteRegionsTask(HeadJob.regions_to_delete))]_vars

\* C33 as stated: candidates are evicted in the order of range-stats until
\* used_bytes <= soft_limit or the list is exhausted, and one DeleteRegions
\* task goes out with exactly the regions evict_region reported deleteable.
C33_EvictUntilBelowSoftLimit ==
    /\ EvictsInOrder
    /\ EmitsOneTask
    /\ [][EvictSoftStep => used > SoftLimit]_vars
    /\ [][(EvictSoftEnd /\ HeadJob.pc = "loop") =>
            (HeadJob.idx > Len(HeadJob.cands) \/ used <= SoftLimit)]_vars

\* C33, amended: candidates are evicted in the order of range-stats until the
\* approximate sizes of the candidates whose eviction made something
\* deleteable add up to the excess of used_bytes over soft_limit read at the
\* start, or the list is exhausted; one DeleteRegions task goes out with
\* exactly the regions evict_region reported deleteable.
C33_EvictUntilExcessCovered ==
    /\ EvictsInOrder
    /\ EmitsOneTask
    /\ [][EvictSoftBegin => evictPool'[1].excess = saturating_sub(used, SoftLimit)]_vars
    /\ [][EvictSoftStep => SeqSum(HeadJob.evicted) < HeadJob.excess]_vars
    /\ [][(EvictSoftEnd /\ HeadJob.pc = "loop") =>
            (HeadJob.idx > Len(HeadJob.cands)
               \/ SeqSum(HeadJob.evicted) >= HeadJob.excess)]_vars

\* The loop has stopped on its counter with a candidate left over, the usage
\* still above the soft limit and a region to delete.
C33_Witness ==
    /\ evictPool # <<>>
    /\ "pc" \in DOMAIN HeadJob
    /\ HeadJob.pc = "loop"
    /\ HeadJob.remaining = 0
    /\ HeadJob.idx <= Len(HeadJob.cands)
    /\ HeadJob.regions_to_delete # <<>>
    /\ used > SoftLimit

\* ------------------------------------------------------------------------
\* CleanLockTombstone: the scan of the lock column on the lock-cleanup pool
\* ------------------------------------------------------------------------
\* Largest sequence number of a lock-column entry, and of a snapshot whose
\* drop schedules a cleanup.
MaxLockSeq == 3

MaxCleanSeqno == 3

LockKeys == {0, 1}

\* An internal entry of the lock column: user key, sequence number and
\* value type.
LockEntry(k, seq, vt) == [k |-> k, seq |-> seq, vt |-> vt]

\* Lock-column contents: at most one entry per user key and sequence number.
LockContents ==
    {S \in SUBSET {LockEntry(k, seq, vt) :
                      k \in LockKeys, seq \in 1..MaxLockSeq, vt \in {"Value", "Deletion"}} :
        \A a, b \in S : (a.k = b.k /\ a.seq = b.seq) => a = b}

\* The order of the skiplist iterator: user key ascending, then sequence
\* descending.
RECURSIVE LockSorted(_)
LockSorted(S) ==
    IF S = {} THEN <<>>
    ELSE LET m == CHOOSE x \in S :
                     \A y \in S : x.k < y.k \/ (x.k = y.k /\ x.seq >= y.seq)
         IN <<m>> \o LockSorted(S \ {m})

\* The locals of the scan; removed collects the keys handed to remove().
NoKey == [k |-> -1, seq |-> 0, vt |-> "None"]

ScanStart ==
    [last_user_key |-> -1, remove_rest |-> FALSE, cached_to_remove |-> NoKey,
     removed |-> {}, ok |-> TRUE]

\* A scan that removes the first entry below the sequence number as well.
clean_lock_step_removes_first(st, e, snapshot_seqno) ==
    IF e.seq < snapshot_seqno
    THEN [st EXCEPT !.last_user_key = e.k, !.removed = @ \cup {e}]
    ELSE [st EXCEPT !.last_user_key = e.k]

\* A scan that never caches a tombstone for removal.
clean_lock_step_keeps_tombstone(st, e, snapshot_seqno) ==
    IF e.k # st.last_user_key
    THEN [st EXCEPT !.last_user_key = e.k, !.remove_rest = e.seq < snapshot_seqno]
    ELSE IF st.remove_rest
    THEN [st EXCEPT !.removed = @ \cup {e}]
    ELSE IF e.seq < snapshot_seqno
    THEN [st EXCEPT !.remove_rest = TRUE]
    ELSE st

\* The body of the while loop for one entry.
clean_lock_step(st, e, snapshot_seqno) ==
    IF e.k # st.last_user_key
    THEN LET flushed == IF st.cached_to_remove # NoKey
                        THEN st.removed \cup {st.cached_to_remove} ELSE st.removed
         IN [st EXCEPT !.last_user_key = e.k,
                       !.removed = flushed,
                       !.remove_rest = ~(e.seq >= snapshot_seqno),
                       !.cached_to_remove =
                           IF ~(e.seq >= snapshot_seqno) /\ e.vt = "Deletion"
                           THEN e ELSE NoKey]
    ELSE IF st.remove_rest
    THEN [st EXCEPT !.ok = @ /\ e.seq < snapshot_seqno,
                    !.removed = @ \cup {e}]
    ELSE IF e.seq < snapshot_seqno
    THEN [st EXCEPT !.remove_rest = TRUE,
                    !.ok = @ /\ (e.vt = "Deletion" => st.cached_to_remove = NoKey),
                    !.cached_to_remove = IF e.vt = "Deletion" THEN e ELSE @]
    ELSE st

RECURSIVE clean_lock_loop(_, _, _)
clean_lock_loop(st, q, snapshot_seqno) ==
    IF q = <<>> THEN st
    ELSE clean_lock_loop(clean_lock_step(st, Head(q), snapshot_seqno), Tail(q),
                         snapshot_seqno)

\* The whole scan: the loop from seek_to_first, then the cached tombstone
\* is removed.
clean_lock_tombstone(S, snapshot_seqno) ==
    LET st == clean_lock_loop(ScanStart, LockSorted(S), snapshot_seqno)
    IN [st EXCEPT !.removed = IF st.cached_to_remove # NoKey
                              THEN @ \cup {st.cached_to_remove} ELSE @,
                  !.cached_to_remove = NoKey]

\* A snapshot is dropped and a cleanup up to its sequence number is
\* scheduled.
ScheduleCleanLock ==
    /\ ~panicked
    /\ envOps < MaxEnvOps
    /\ \E n \in 0..MaxCleanSeqno :
         LET q == schedule_task(taskQ, delQ, CleanLockTombstone(n))
         IN taskQ' = q.taskQ /\ delQ' = q.delQ
    /\ envOps' = envOps + 1
    /\ UNCHANGED <<cfgVars, rmVars, snapVars, slVars, gcVars, loadVars, delVars,
                   gcScheduled, loadOps, runVars, tickVars, wbVars, hintVars, panicked>>

\* The lock-cleanup pool runs the scan of the task at its head.
LockCleanRun ==
    /\ ~panicked
    /\ lockPool # <<>>
    /\ LET st == clean_lock_tombstone(lock_cf, Head(lockPool).seqno)
       IN /\ lock_cf' = lock_cf \ st.removed
          /\ panicked' = ~st.ok
    /\ lockPool' = Tail(lockPool)
    /\ UNCHANGED <<cfgVars, rmVars, snapVars, write_cf, default_cf, used, qVars, gcVars,
                   loadVars, delVars, envVars, memory_checking, last_seqno, evictPool,
                   tickVars, wbVars, hintVars>>

InitLock ==
    /\ is_gc_task_running = FALSE
    /\ history = {}
    /\ ranges_being_written = {}
    /\ snapshots = {}
    /\ nextSid = 0
    /\ taskQ = <<>>
    /\ delQ = <<>>
    /\ workerPc = "idle"
    /\ gcPool = <<>>
    /\ rocks_engine = RocksEngine(TRUE, 1)
    /\ loadPool = <<>>
    /\ delay_regions = <<>>
    /\ delPc = DelIdle
    /\ gcScheduled = 0
    /\ envOps = 0
    /\ loadOps = 0
    /\ hard_limit = HardLimit
    /\ InitExt
    /\ panicked = FALSE
    /\ regions = [id \in RegionIds |-> AbsentMeta]
    /\ write_cf = {}
    /\ default_cf = {}
    /\ lock_cf \in LockContents
    /\ used = LiveBytes(write_cf, default_cf, lock_cf)

NextLock ==
    \/ ScheduleCleanLock
    \/ RunTask
    \/ LockCleanRun

SpecLock == InitLock /\ [][NextLock]_vars

\* The runner thread takes a CleanLockTombstone task.
CleanLockTaken ==
    /\ taskQ # <<>>
    /\ Head(taskQ).type = "CleanLockTombstone"
    /\ taskQ' = Tail(taskQ)

\* C34: a CleanLockTombstone task whose sequence number is below the last one
\* seen does nothing: no scan is spawned, nothing is removed and the last
\* seen number stays; any other task records its number as the last seen and
\* spawns its scan; so the last seen number never decreases.
C34_LastSeqnoMonotonic ==
    /\ [][(CleanLockTaken /\ Head(taskQ).seqno < last_seqno) =>
            /\ lockPool' = lockPool
            /\ lock_cf' = lock_cf
            /\ last_seqno' = last_seqno]_vars
    /\ [][(CleanLockTaken /\ Head(taskQ).seqno >= last_seqno) =>
            /\ last_seqno' = Head(taskQ).seqno
            /\ lockPool' = Append(lockPool, [seqno |-> Head(taskQ).seqno])]_vars
    /\ [][last_seqno' >= last_seqno]_vars

\* A task has been recorded and its scan spawned, and the task now at the
\* head of the queue carries a lower sequence number.
C34_Witness ==
    /\ taskQ # <<>>
    /\ Head(taskQ).type = "CleanLockTombstone"
    /\ Head(taskQ).seqno < last_seqno
    /\ lockPool = <<[seqno |-> last_seqno]>>
    /\ lock_cf # {}

\* The entries of user key k below sequence number n.
Below(S, k, n) == {e \in S : e.k = k /\ e.seq < n}

\* The newest entry of a non-empty set of entries of one user key.
NewestOf(B) == CHOOSE e \in B : \A x \in B : x.seq <= e.seq

\* C35 as stated: after a pass every user key retains at most one live
\* version, and every superseded version and every tombstone with sequence
\* below seqno is gone.
C35_OneLiveVersion ==
    [][LockCleanRun =>
         LET n == Head(lockPool).seqno
         IN \A k \in LockKeys :
              /\ Cardinality({e \in lock_cf' : e.k = k /\ e.vt = "Value"}) <= 1
              /\ \A e \in Below(lock_cf', k, n) :
                    /\ e.vt # "Deletion"
                    /\ ~\E x \in lock_cf' : x.k = k /\ x.seq > e.seq]_vars

\* C35, amended: after a pass every user key retains at most one entry with
\* sequence below seqno, the newest of them and only when it is a Value:
\* every older entry and every tombstone with sequence below seqno is gone.
C35_OneVersionBelowSeqno ==
    [][LockCleanRun =>
         LET n == Head(lockPool).seqno
         IN \A k \in LockKeys :
              LET B == Below(lock_cf', k, n)
              IN /\ Cardinality(B) <= 1
                 /\ \A e \in B : /\ e.vt = "Value"
                                 /\ e = NewestOf(Below(lock_cf, k, n))]_vars

\* One task of sequence number 3 has been scheduled and handled and its scan
\* has run; a user key holds the version at sequence 3 and the one below it.
C35_Witness ==
    /\ envOps = 1
    /\ taskQ = <<>>
    /\ lockPool = <<>>
    /\ last_seqno = MaxCleanSeqno
    /\ lock_cf = {LockEntry(0, 3, "Value"), LockEntry(0, 2, "Value"),
                  LockEntry(1, 2, "Value")}

\* C36: a pass removes no entry with sequence >= seqno, keeps the newest
\* entry below seqno of a user key when it is a Value, and neither assertion
\* of the scan fails.
C36_ScanSafety ==
    [][LockCleanRun =>
         LET n == Head(lockPool).seqno
         IN /\ \A e \in lock_cf : e.seq >= n => e \in lock_cf'
            /\ \A k \in LockKeys :
                  (Below(lock_cf, k, n) # {}
                     /\ NewestOf(Below(lock_cf, k, n)).vt = "Value")
                  => NewestOf(Below(lock_cf, k, n)) \in lock_cf'
            /\ lock_cf' \subseteq lock_cf
            /\ ~panicked']_vars

\* One task of sequence number 2 has been scheduled and handled and its scan
\* has run; a user key holds a tombstone and a version at or above 2 and the
\* version below.
C36_Witness ==
    /\ envOps = 1
    /\ taskQ = <<>>
    /\ lockPool = <<>>
    /\ last_seqno = 2
    /\ lock_cf = {LockEntry(0, 3, "Deletion"), LockEntry(0, 2, "Value"),
                  LockEntry(0, 1, "Value")}

\* ------------------------------------------------------------------------
\* PdRangeHintService: label rules of the placement service ask for loads
\* ------------------------------------------------------------------------
CACHE_LABEL_RULE_KEY == "cache"

CACHE_LABEL_RULE_ALWAYS == "always"

\* Label rules the watch delivers in one run.
MaxRules == 2

\* Key ranges one label rule carries.
MaxRanges == 2

\* The hexadecimal digits; a string is a sequence of characters.
HexLower == <<"0", "1", "2", "3", "4", "5", "6", "7", "8", "9",
              "a", "b", "c", "d", "e", "f">>

HexUpper == <<"0", "1", "2", "3", "4", "5", "6", "7", "8", "9",
              "A", "B", "C", "D", "E", "F">>

IsHex(c) == \E i \in 1..16 : HexLower[i] = c \/ HexUpper[i] = c

HexVal(c) == (CHOOSE i \in 1..16 : HexLower[i] = c \/ HexUpper[i] = c) - 1

\* A decoder that takes the string for the bytes: one byte per character,
\* whatever the character.
hex_decode_unchecked(str) ==
    [err |-> "None", bytes |-> [i \in 1..Len(str) |-> 0]]

\* hex::decode: an odd length and a character that is no hexadecimal digit
\* are errors; otherwise two digits make one byte.
hex_decode(str) ==
    IF Len(str) % 2 # 0 THEN [err |-> "OddLength", bytes |-> <<>>]
    ELSE IF \E i \in 1..Len(str) : ~IsHex(str[i])
    THEN [err |-> "InvalidHexCharacter", bytes |-> <<>>]
    ELSE [err |-> "None",
          bytes |-> [i \in 1..(Len(str) \div 2) |->
                        16 * HexVal(str[2 * i - 1]) + HexVal(str[2 * i])]]

\* parse_range: start and end are decoded in turn; the first error is the
\* result.
parse_range(key_range) ==
    LET start == hex_decode(key_range.start_key)
        end == hex_decode(key_range.end_key)
    IN IF start.err # "None" THEN [err |-> start.err, start |-> <<>>, end |-> <<>>]
       ELSE IF end.err # "None" THEN [err |-> end.err, start |-> <<>>, end |-> <<>>]
       ELSE [err |-> "None", start |-> start.bytes, end |-> end.bytes]

\* A callback that loads for every rule the watch lets through.
cache_always_any_value(label_rule) ==
    \E e \in label_rule.labels : e.key = CACHE_LABEL_RULE_KEY

\* The rule carries the label cache = always.
cache_always(label_rule) ==
    \E e \in label_rule.labels :
       e.key = CACHE_LABEL_RULE_KEY /\ e.value = CACHE_LABEL_RULE_ALWAYS

\* rule_filter_fn of the watch: rules with a cache label.
rule_filter_fn(label_rule) ==
    \E e \in label_rule.labels : e.key = CACHE_LABEL_RULE_KEY

\* The regions the region-information provider knows, and
\* get_regions_in_range: those overlapping [start, end) of one-byte keys, an
\* empty key being unbounded.
ProviderRegions == LoadCandidates

get_regions_in_range(start, end) ==
    RegionsById({r \in ProviderRegions :
                    /\ end = <<>> \/ r.rng.s < end[1]
                    /\ start = <<>> \/ start[1] < r.rng.e})

\* load_region on each region in turn under one write lock; an error is
\* logged and the next region is tried.
RECURSIVE load_regions(_, _)
load_regions(rs, q) ==
    IF q = <<>> THEN rs ELSE load_regions(load_region(rs, Head(q)), Tail(q))

\* Label sets and key ranges of the rules the placement service may send.
LabelSets ==
    {{[key |-> "cache", value |-> "always"]},
     {[key |-> "cache", value |-> "never"]},
     {[key |-> "zone", value |-> "always"]},
     {[key |-> "zone", value |-> "always"], [key |-> "cache", value |-> "always"]}}

KeyRangeRule(s, e) == [start_key |-> s, end_key |-> e]

KeyRangeRules ==
    {KeyRangeRule(<<"0", "0">>, <<"0", "3">>),
     KeyRangeRule(<<"0", "2">>, <<>>),
     KeyRangeRule(<<"0", "0">>, <<"0", "1">>),
     KeyRangeRule(<<"0">>, <<"0", "3">>),
     KeyRangeRule(<<"0", "0">>, <<"0", "g">>)}

LabelRules ==
    {[labels |-> l, data |-> d] :
        l \in LabelSets,
        d \in UNION {[1..n -> KeyRangeRules] : n \in 1..MaxRanges}}

\* The watch delivers a label rule: rules without a cache label are dropped
\* by the filter, the others reach region_label_added_cb, which returns at
\* once unless the rule carries cache = always.
HintRuleAdded ==
    /\ ~panicked
    /\ hint.pc = "watch"
    /\ Len(hint.rules) < MaxRules
    /\ \E label_rule \in LabelRules :
         hint' = [hint EXCEPT
                    !.rules = Append(@, label_rule),
                    !.pc = IF rule_filter_fn(label_rule) /\ cache_always(label_rule)
                           THEN "data" ELSE "watch",
                    !.data = IF rule_filter_fn(label_rule) /\ cache_always(label_rule)
                             THEN label_rule.data ELSE <<>>]
    /\ UNCHANGED <<cfgVars, rmVars, snapVars, slVars, qVars, gcVars, loadVars, delVars,
                   envVars, runVars, tickVars, wbVars, panicked>>

\* One key range of the rule: parse_range, then range_manager_load_cb, in
\* which the provider is asked and answers or fails.
HintRange ==
    /\ ~panicked
    /\ hint.pc = "data"
    /\ LET key_range == Head(hint.data)
           p == parse_range(key_range)
           rest == Tail(hint.data)
           pc == IF rest = <<>> THEN "watch" ELSE "data"
       IN IF p.err # "None"
          THEN /\ hint' = [hint EXCEPT !.data = rest, !.pc = pc]
               /\ UNCHANGED regions
          ELSE \E ok \in BOOLEAN :
                 LET found == IF ok THEN get_regions_in_range(p.start, p.end) ELSE <<>>
                 IN /\ hint' = [hint EXCEPT
                                  !.data = rest, !.pc = pc,
                                  !.asked = Append(@, [start |-> p.start, end |-> p.end,
                                                       ok |-> ok]),
                                  !.requested = @ \o found]
                    /\ regions' = load_regions(regions, found)
    /\ UNCHANGED <<cfgVars, is_gc_task_running, history, ranges_being_written, snapVars,
                   slVars, qVars, gcVars, loadVars, delVars, envVars, runVars, tickVars,
                   wbVars, panicked>>

\* The hint specification: an empty cache and the watch of the hint
\* service.
NextHint ==
    \/ HintRuleAdded
    \/ HintRange

SpecHint == InitLoad /\ [][NextHint]_vars

\* The bytes the hexadecimal strings of KeyRangeRules stand for; <<-1>> for
\* a string that is no hexadecimal encoding.
Bytes(str) ==
    CASE str = <<>> -> <<>>
      [] str = <<"0", "0">> -> <<0>>
      [] str = <<"0", "1">> -> <<1>>
      [] str = <<"0", "2">> -> <<2>>
      [] str = <<"0", "3">> -> <<3>>
      [] OTHER -> <<-1>>

\* The key ranges of a rule that decode, in order.
RECURSIVE Decoded(_)
Decoded(data) ==
    IF data = <<>> THEN <<>>
    ELSE LET start == Bytes(Head(data).start_key)
             end == Bytes(Head(data).end_key)
         IN (IF start # <<-1>> /\ end # <<-1>>
             THEN <<[start |-> start, end |-> end]>> ELSE <<>>)
               \o Decoded(Tail(data))

CarriesAlways(label_rule) ==
    [key |-> "cache", value |-> "always"] \in label_rule.labels

\* The decoded key ranges of the rules carrying cache = always, in order.
RECURSIVE AlwaysRanges(_)
AlwaysRanges(rules) ==
    IF rules = <<>> THEN <<>>
    ELSE (IF CarriesAlways(Head(rules)) THEN Decoded(Head(rules).data) ELSE <<>>)
            \o AlwaysRanges(Tail(rules))

\* What the provider reported for the lookups that succeeded, in order.
RECURSIVE Reported(_)
Reported(asked) ==
    IF asked = <<>> THEN <<>>
    ELSE (IF Head(asked).ok
          THEN get_regions_in_range(Head(asked).start, Head(asked).end) ELSE <<>>)
            \o Reported(Tail(asked))

\* C37: once the rules delivered so far are worked off, the provider has
\* been asked for exactly the decoded key ranges of the rules carrying
\* cache = always and load_region has been requested for exactly the regions
\* it reported; a rule without cache = always changes nothing; a range that
\* does not decode, a lookup that fails and a load_region that fails leave
\* the rest of the rule to be processed, and the watch goes on to later
\* rules.
C37_HintLoads ==
    /\ [](hint.pc = "watch" =>
            /\ [i \in 1..Len(hint.asked) |->
                  [start |-> hint.asked[i].start, end |-> hint.asked[i].end]]
                 = AlwaysRanges(hint.rules)
            /\ hint.requested = Reported(hint.asked))
    /\ [][(Len(hint'.rules) > Len(hint.rules)
            /\ ~CarriesAlways(hint'.rules[Len(hint'.rules)])) =>
               /\ regions' = regions
               /\ hint'.pc = "watch"
               /\ hint'.requested = hint.requested]_vars
    /\ [][(hint.pc = "data" /\ hint' # hint) =>
            /\ hint'.data = Tail(hint.data)
            /\ hint'.pc = IF Tail(hint.data) = <<>> THEN "watch" ELSE "data"
            /\ \E n \in 0..Len(hint'.requested) :
                  /\ hint'.requested =
                        hint.requested \o SubSeq(hint'.requested,
                                                 Len(hint.requested) + 1,
                                                 Len(hint'.requested))
                  /\ regions' = load_regions(regions,
                                   SubSeq(hint'.requested, Len(hint.requested) + 1,
                                          Len(hint'.requested)))]_vars

\* Two rules have been worked off: a range of the first did not decode and
\* its other range made the provider report two regions, which were
\* requested and are Pending; the second rule asked for them again.
C37_Witness ==
    /\ hint.pc = "watch"
    /\ Len(hint.rules) = MaxRules
    /\ CarriesAlways(hint.rules[1])
    /\ CarriesAlways(hint.rules[2])
    /\ hint.rules[1].data = <<KeyRangeRule(<<"0">>, <<"0", "3">>),
                               KeyRangeRule(<<"0", "0">>, <<"0", "3">>)>>
    /\ Len(hint.asked) >= 2
    /\ Len(hint.requested) = 4
    /\ regions[1].state = "Pending"
    /\ regions[2].state = "Pending"

\* ------------------------------------------------------------------------
\* The assertions of the loader under evictions
\* ------------------------------------------------------------------------
\* C38: when the loader begins a LoadRegion task, the region's entry is
\* present and its state is ReadyToLoad or LoadingCanceled, whatever
\* evict_region calls came before; and no step of the loader, its
\* completion handlers on_snapshot_load_finished and on_snapshot_load_failed
\* included, finds a region it visits outside Loading and LoadingCanceled or
\* fails an assertion.
C38_LoaderAssertions ==
    /\ [][LoadStart =>
            regions[HeadLoad.region.id].state \in {"ReadyToLoad", "LoadingCanceled"}]_vars
    /\ [][(LoadFinish \/ LoadFailed) =>
            \A id \in VisitedIds(regions, HeadLoad.region) :
               regions[id].state \in {"Loading", "LoadingCanceled"}]_vars
    /\ [][LoadSteps => ~panicked']_vars


\* ------------------------------------------------------------------------
\* Payloads left behind by a Filter pass
\* ------------------------------------------------------------------------

\* The internal entries of the write column before the pass that are Put
\* records without short value pointing at the default-column entry x.
PutsOf(x) ==
    {e \in HeadRun.init_w :
        /\ e.vt = "Value" /\ e.wt = "Put" /\ ~e.short
        /\ e.k = x.k /\ e.sts = x.sts}

\* C39: no orphaned payload: after a completed Filter pass the default
\* column holds no entry whose Put record without short value was removed
\* from the write column by the pass, whichever branch of filter_key
\* removed it.
C39_NoOrphanedPayload ==
    PassDone =>
       \A x \in default_cf :
          PutsOf(x) # {} => PutsOf(x) \cap write_cf # {}


\* ------------------------------------------------------------------------
\* The timestamp specification: the tick thread with a placement service
\* whose timestamps do not follow the clock of the process
\* ------------------------------------------------------------------------
MaxPhysical == 2

\* Physical times the placement service may answer the tick thread with.
TsoPhysical == 0..MaxPhysical

\* block_on_timeout(get_tso) returns with a timestamp of the service, or the
\* call fails or times out.
TsoGetTso ==
    /\ ~panicked
    /\ tick.pc = "get_tso"
    /\ IF ~pd_ok
       THEN /\ tick' = on_tso_error(tick)
            /\ UNCHANGED <<taskQ, gcScheduled, panicked>>
       ELSE \E now \in TsoPhysical : TsoOk(now)
    /\ UNCHANGED <<cfgVars, rmVars, snapVars, slVars, delQ, gcVars, loadVars, delVars,
                   envOps, loadOps, runVars, clock, pd_ok, drop_pc, worker_stopped, wbVars, hintVars>>

NextTso ==
    \/ Tock
    \/ PdChange
    \/ TickGc
    \/ TsoGetTso
    \/ TickLoadEvict
    \/ TickStop
    \/ TickExit
    \/ DropSteps
    \/ RunnerSteps

SpecTso == InitLoad /\ [][NextTso]_vars

Max2(a, b) == IF a >= b THEN a ELSE b

\* C40: for every timestamp of the placement service the safe point of the
\* tick thread and of the loader is compose(max(physical - gc_interval, 0),
\* 0): the subtraction does not wrap or panic, and the safe point is not
\* above the timestamp.
C40_SafePointNeverWraps ==
    /\ [][(TsoGetTso /\ pd_ok) =>
            /\ ~panicked'
            /\ gcScheduled' = gcScheduled + 1
            /\ \E now \in TsoPhysical :
                  /\ taskQ'[Len(taskQ')].safe_point
                        = compose(Max2(now - GcInterval, 0), 0)
                  /\ taskQ'[Len(taskQ')].safe_point <= compose(now, 0)]_vars
    /\ [][LoadGc =>
            \/ loadPool'[1].safe_point = 0
            \/ \E now \in PdNow :
                  /\ loadPool'[1].safe_point
                        = compose(Max2(now - GcInterval, 0), 0)
                  /\ loadPool'[1].safe_point <= compose(now, 0)]_vars

============================================================================
